---------------------------- MODULE Spec2Model ----------------------------
(***************************************************************************)
(* A model of the conversation analyzer's ingestion core:                  *)
(*   - src/src/parser.py      JSONLParser (record parsing, role            *)
(*                            reclassification, content flattening,        *)
(*                            timestamp repair)                            *)
(*   - src/src/embeddings.py  OllamaEmbeddings (embed_single, embed_batch) *)
(*   - src/src/database.py    ConversationDatabase.store_conversation      *)
(*                                                                         *)
(* Each component has its own specification over the shared variables:     *)
(*   Spec         parse_conversation_file on one file                      *)
(*   SpecFlatten  _extract_content on one content value                    *)
(*   SpecEmbed    embed_batch / embed_single with concurrent requests      *)
(*   SpecStore    store_conversation calls against the database          *)
(***************************************************************************)
EXTENDS Integers, Sequences, FiniteSets, TLC

VARIABLES
    \* ---- parse_conversation_file ----
    file,           \* the file: [exists, lines]
    pc,             \* position in parse_conversation_file
    raw_messages,   \* decoded records, in file order
    metadata,       \* ConversationMetadata
    messages,       \* list of ParsedMessage
    outcome,        \* "running" | "returned" | the exception raised
    \* ---- _extract_content ----
    fl_content,     \* the content value handed to _extract_content
    fl_out,         \* its result
    fl_again,       \* the result of flattening the result once more
    fl_pc,
    \* ---- embed_batch / embed_single ----
    em_texts,       \* the texts handed to embed_batch
    em_pc,          \* position in embed_batch
    em_i,           \* start offset of the current group (the loop's i)
    em_status,      \* per text: the state of its embed_single task
    em_value,       \* per text: what its embed_single task returned
    em_requests,    \* the POST /api/embeddings requests sent: [idx, prompt]
    em_embeddings,  \* the embeddings list embed_batch builds and returns
    \* ---- ConversationDatabase ----
    db_conversations,  \* rows of table conversations
    db_messages,       \* rows of table messages
    db_events,         \* rows of table technical_events
    db_next_id,        \* the next generated row id
    db_index,          \* idx_messages_embedding: [exists, builds]
    st_acquired,       \* connections acquired from the pool so far
    st_calls,          \* store_conversation calls made so far
    st_last,           \* the last store_conversation call and how it ended
    \* ---- search_similar ----
    sr_pc,             \* "idle" | "done"
    sr_query,          \* the arguments of the search_similar call
    sr_results,        \* the list it returned
    api_request,       \* the query parameters of the GET /api/search request
    api_response,      \* the response of the handler: [status, total, detail]
    \* ---- the ingestion scripts ----
    in_run,            \* the run: [pipeline, available, units, split]
    in_pc,             \* position in the script's ingestion function
    in_loop,           \* the loops' variables: [p, c, parsed, vectors,
                       \*   project_messages, project_embedded]
    in_totals,         \* [conversations, messages, embedded]
    in_calls,          \* the store_conversation calls made, in order
    in_touched,        \* the files parse_conversation_file was called on
    in_report          \* what the final report printed

parserVars  == <<file, pc, raw_messages, metadata, messages, outcome>>
flattenVars == <<fl_content, fl_out, fl_again, fl_pc>>
embedVars   == <<em_texts, em_pc, em_i, em_status, em_value, em_requests,
                 em_embeddings>>
storeVars   == <<db_conversations, db_messages, db_events, db_next_id,
                 db_index, st_acquired, st_calls, st_last>>
searchVars  == <<sr_pc, sr_query, sr_results, api_request, api_response>>
ingestVars  == <<in_run, in_pc, in_loop, in_totals, in_calls, in_touched,
                 in_report>>
vars == <<parserVars, flattenVars, embedVars, storeVars, searchVars, ingestVars>>

(***************************************************************************)
(* Bounds of the model.                                                    *)
(***************************************************************************)
MaxLines == 3       \* lines of a multi-line file
MaxItems == 2       \* elements of a content list
MaxDepth == 3       \* nesting depth of content values
MaxTexts == 3       \* texts of one embed_batch call
MaxStores == 2      \* store_conversation calls in one run
MaxRows == 3        \* message rows of the table search_similar reads
MaxLimit == 2       \* largest limit handed to search_similar
MaxUnits == 3       \* conversation files of one ingestion run

(***************************************************************************)
(* Sequence helpers.                                                       *)
(***************************************************************************)
SeqsUpTo(S, n) == UNION {[1..k -> S] : k \in 0..n}

RECURSIVE Join(_)
\* '\n'.join(parts): parts is a sequence of token sequences
Join(parts) ==
    IF Len(parts) = 0 THEN <<>>
    ELSE IF Len(parts) = 1 THEN parts[1]
    ELSE parts[1] \o <<"\n">> \o Join(Tail(parts))

\* text occurs in out as a contiguous run of tokens
Contains(out, text) ==
    \E i \in 1..(Len(out) + 1) :
        /\ i + Len(text) - 1 <= Len(out)
        /\ \A k \in 1..Len(text) : out[i + k - 1] = text[k]

(***************************************************************************)
(* Content values (the JSON value under a "content" key).  A string is a   *)
(* sequence of one-character tokens.                                       *)
(*   k = "str"   a JSON string                                             *)
(*   k = "list"  a JSON array                                              *)
(*   k = "dict"  a JSON object: type, optional text, optional content      *)
(*   k = "num"   any other JSON value (a non-zero number)                  *)
(***************************************************************************)
StrC(s)  == [k |-> "str", s |-> s]
NumC     == [k |-> "num"]
ListC(items) == [k |-> "list", items |-> items]
DictC(type, hasText, text, hasContent, content) ==
    [k |-> "dict", type |-> type, hasText |-> hasText, text |-> text,
     hasContent |-> hasContent, content |-> content]

BlockTypes == {"text", "tool_result"}
LeafBlocks ==
    {DictC(t, ht, IF ht THEN <<"t">> ELSE <<>>, FALSE, NumC) :
        t \in BlockTypes, ht \in BOOLEAN}
Leaves == {StrC(<<"a">>), NumC} \cup LeafBlocks

\* one more level of nesting around the values of X: a block whose content
\* field holds x, or a one-element list holding x
WrapC(X) ==
    X \cup {DictC(t, ht, IF ht THEN <<"w">> ELSE <<>>, TRUE, x) :
              t \in BlockTypes, ht \in BOOLEAN, x \in X}
      \cup {ListC(<<x>>) : x \in X}

RECURSIVE ContentsOfDepth(_)
ContentsOfDepth(d) ==
    IF d <= 1
    THEN Leaves \cup {ListC(s) : s \in SeqsUpTo(Leaves, MaxItems)}
    ELSE WrapC(ContentsOfDepth(d - 1))

Contents == ContentsOfDepth(MaxDepth)

(***************************************************************************)
(* JSONLParser._extract_content                                            *)
(***************************************************************************)
\* str(content) of a value that is not a string: one token
StrOf(c) == IF c.k = "dict" THEN <<"{dict}">> ELSE <<"7">>

RECURSIVE ExtractContent(_)
RECURSIVE ListParts(_)
\* the text_parts list built by the loop over a list's blocks
ListParts(items) ==
    IF Len(items) = 0 THEN <<>>
    ELSE LET block == Head(items)
             rest  == ListParts(Tail(items))
         IN  IF block.k = "dict"
             THEN IF block.type = "text" /\ block.hasText
                  THEN <<block.text>> \o rest
                  ELSE IF block.hasContent
                       THEN <<ExtractContent(block.content)>> \o rest
                       ELSE rest
             ELSE IF block.k = "str"
                  THEN <<block.s>> \o rest
                  ELSE rest

ExtractContent(content) ==
    IF content.k = "str" THEN content.s
    ELSE IF content.k = "list" THEN Join(ListParts(content.items))
    ELSE IF content.k = "dict"
         THEN IF content.type = "text" /\ content.hasText
              THEN content.text
              ELSE IF content.hasContent
                   THEN ExtractContent(content.content)
                   ELSE StrOf(content)
    ELSE StrOf(content)

(***************************************************************************)
(* Lines of a conversation file.                                           *)
(*   kind = "blank"      empty after strip(): skipped                      *)
(*   kind = "malformed"  json.loads raises JSONDecodeError: skipped        *)
(*   kind = "scalar"     decodes to a number, null or a boolean            *)
(*   kind = "array"      decodes to an array or a string                   *)
(*   kind = "object"     decodes to a record with the fields below         *)
(***************************************************************************)
NonObject(kind) ==
    [kind |-> kind, type |-> "absent", message |-> [tag |-> "absent"],
     tur |-> [tag |-> "absent"], timestamp |-> [tag |-> "absent"],
     uuid |-> "", gitBranch |-> "", cwd |-> ""]

BlankLine     == NonObject("blank")
MalformedLine == NonObject("malformed")
ScalarLine    == NonObject("scalar")
ArrayLine     == NonObject("array")

\* the "type" field; "absent" when the record has none
RecordTypes == {"summary", "user", "assistant", "absent"}
\* the "role" field of the message payload; "absent" when it has none
PayloadRoles == {"absent", "user", "assistant", "reviewer"}
\* the "content" field of the message payload
ToolResultBlock == DictC("tool_result", FALSE, <<>>, FALSE, NumC)
TextBlock       == DictC("text", TRUE, <<"t">>, FALSE, NumC)
PayloadContents ==
    { StrC(<<"a">>),
      ListC(<<TextBlock>>),
      ListC(<<TextBlock, ToolResultBlock>>),
      ListC(<<StrC(<<"a">>), ToolResultBlock>>),
      ToolResultBlock }
\* the "message" field: absent, not an object (a string, null, a list), or
\* an object with an optional role and a content
Payloads ==
    {[tag |-> "absent"], [tag |-> "notobj"]}
      \cup [tag : {"obj"}, role : PayloadRoles, content : PayloadContents]
\* the "toolUseResult" field, by the shape of its payload
ToolUseShapes == {"empty", "todos", "content", "other"}
ToolUseResults == {[tag |-> "absent"]} \cup [tag : {"present"}, shape : ToolUseShapes]
\* the "timestamp" field: absent (or falsy), an ISO string (with or without
\* a UTC offset), a string fromisoformat rejects, or a non-string value
IsoTimes == {1, 2}
TimestampFields ==
    {[tag |-> "absent"], [tag |-> "garbage"], [tag |-> "number"]}
      \cup [tag : {"iso"}, t : IsoTimes, aware : BOOLEAN]
\* the "uuid" (or, for a summary, "leafUuid") field; "" when absent
UuidFields == {"", "u1"}
\* "gitBranch" and "cwd"; "" when absent or empty
Branches == {"", "main"}
Cwds     == {"", "/w"}

ObjectRecords ==
    [kind : {"object"}, type : RecordTypes, message : Payloads,
     tur : ToolUseResults, timestamp : TimestampFields, uuid : UuidFields,
     gitBranch : Branches, cwd : Cwds]

\* the value of the "summary" field of a summary record
SummaryText == StrC(<<"s">>)

(***************************************************************************)
(* Timestamps: None, or an instant that is timezone-aware or naive.        *)
(***************************************************************************)
NoneTs       == [none |-> TRUE, t |-> 0, aware |-> FALSE]
Ts(t, aware) == [none |-> FALSE, t |-> t, aware |-> aware]
\* datetime.fromtimestamp(st_mtime): a naive datetime
FileMTime == Ts(5, FALSE)

(***************************************************************************)
(* JSONLParser._parse_message                                              *)
(***************************************************************************)
\* the exception-free part of the method raises here: a non-object record
\* (raw_msg.get), a non-string timestamp (.replace), a message payload that
\* is no object (message_data.get); all caught by "except Exception" -> None
ParseRaises(raw) ==
    \/ raw.kind # "object"
    \/ raw.timestamp.tag = "number"
    \/ (raw.type # "summary" /\ raw.message.tag = "notobj")

MsgType(raw) == IF raw.type = "absent" THEN "unknown" ELSE raw.type

\* lines 159-169: metadata.started_at is still None while messages are
\* parsed, so the summary branch never assigns
ParseTimestamp(raw, started_at) ==
    IF raw.timestamp.tag = "iso"
    THEN Ts(raw.timestamp.t, raw.timestamp.aware)
    ELSE IF raw.timestamp.tag = "garbage" THEN NoneTs
    ELSE IF MsgType(raw) = "summary" /\ ~started_at.none THEN started_at
    ELSE NoneTs

\* message_data.get('content'), with a flag for its presence
MessageContent(raw) ==
    IF MsgType(raw) = "summary" THEN [has |-> TRUE, c |-> SummaryText]
    ELSE IF raw.message.tag = "obj" THEN [has |-> TRUE, c |-> raw.message.content]
    ELSE [has |-> FALSE, c |-> StrC(<<>>)]

\* lines 171-179
DeclaredRole(raw) ==
    IF MsgType(raw) = "summary" THEN "summary"
    ELSE IF raw.message.tag = "obj" /\ raw.message.role # "absent"
         THEN raw.message.role
         ELSE MsgType(raw)

\* line 188: any(block.get('type') == 'tool_result' for dict blocks)
HasToolResultBlock(c) ==
    /\ c.k = "list"
    /\ \E i \in 1..Len(c.items) :
          c.items[i].k = "dict" /\ c.items[i].type = "tool_result"

\* a variant that looks at content blocks only and not at toolUseResult
IsToolResponse_BlocksOnly(raw) ==
    DeclaredRole(raw) = "user" /\ MessageContent(raw).has
        /\ HasToolResultBlock(MessageContent(raw).c)

\* lines 183-193
IsToolResponse(raw) ==
    \/ (DeclaredRole(raw) = "user" /\ MessageContent(raw).has
            /\ HasToolResultBlock(MessageContent(raw).c))
    \/ (DeclaredRole(raw) = "user" /\ raw.tur.tag = "present")

ParsedRole(raw) == IF IsToolResponse(raw) THEN "tool" ELSE DeclaredRole(raw)

\* str(uuid4()): the n-th value of the generator seeded with seed
Uuid4(seed, n) == [gen |-> TRUE, id |-> "", seed |-> seed, n |-> n]
GivenUuid(id)  == [gen |-> FALSE, id |-> id, seed |-> 0, n |-> 0]

\* the ParsedMessage built from raw (the idx-th decoded record; rec is not a
\* field of the program's ParsedMessage, it records where the message came from)
ParseMessage(raw, idx, seed, started_at) ==
    [ uuid      |-> IF raw.uuid = "" THEN Uuid4(seed, idx) ELSE GivenUuid(raw.uuid),
      role      |-> ParsedRole(raw),
      content   |-> ExtractContent(MessageContent(raw).c),
      timestamp |-> ParseTimestamp(raw, started_at),
      tool_uses |-> raw.tur,
      rec       |-> idx ]

(***************************************************************************)
(* JSONLParser._extract_conversation_metadata: the scan for gitBranch and  *)
(* cwd.  "'gitBranch' in msg" raises TypeError on a record that decoded to *)
(* a number, null or a boolean; the scan stops at the first record that    *)
(* sets git_branch.                                                        *)
(***************************************************************************)
RECURSIVE ScanMetadata(_, _, _, _)
ScanMetadata(raws, i, gb, wd) ==
    IF i > Len(raws)
    THEN [raised |-> FALSE, git_branch |-> gb, working_directory |-> wd]
    ELSE IF raws[i].kind = "scalar"
    THEN [raised |-> TRUE, git_branch |-> gb, working_directory |-> wd]
    ELSE LET gb2 == IF raws[i].gitBranch # "" THEN raws[i].gitBranch ELSE gb
             wd2 == IF raws[i].cwd # "" THEN raws[i].cwd ELSE wd
         IN  IF gb2 # ""
             THEN [raised |-> FALSE, git_branch |-> gb2, working_directory |-> wd2]
             ELSE ScanMetadata(raws, i + 1, gb2, wd2)

ExtractConversationMetadata(raws) == ScanMetadata(raws, 1, "", "")

(***************************************************************************)
(* JSONLParser._fix_missing_timestamps                                     *)
(***************************************************************************)
\* a variant that looks at the next message only
FallbackTime_NextOnly(msgs, i) ==
    IF i < Len(msgs) /\ ~msgs[i + 1].timestamp.none
    THEN msgs[i + 1].timestamp
    ELSE FileMTime

\* the timestamp of the first message after i that has one, else file_mtime
FallbackTime(msgs, i) ==
    LET later == {j \in (i + 1)..Len(msgs) : ~msgs[j].timestamp.none}
    IN  IF later = {} THEN FileMTime
        ELSE msgs[CHOOSE j \in later : \A k \in later : j <= k].timestamp

FixMissingTimestamps(msgs) ==
    [i \in 1..Len(msgs) |->
        IF msgs[i].timestamp.none
        THEN [msgs[i] EXCEPT !.timestamp = FallbackTime(msgs, i)]
        ELSE msgs[i]]

(***************************************************************************)
(* parse_conversation_file, lines 103-109: min() and max() of datetimes    *)
(* raise TypeError when an offset-aware one meets a naive one.             *)
(***************************************************************************)
Timestamps(msgs) == {msgs[i].timestamp : i \in 1..Len(msgs)} \ {NoneTs}
MixedAwareness(tss) == \E a \in tss, b \in tss : a.aware # b.aware
MinTs(tss) == CHOOSE a \in tss : \A b \in tss : a.t <= b.t
MaxTs(tss) == CHOOSE a \in tss : \A b \in tss : a.t >= b.t

(***************************************************************************)
(* parse_conversation_file                                                 *)
(***************************************************************************)
Decodes(line) == line.kind \in {"scalar", "array", "object"}

RECURSIVE ParseAll(_, _, _, _)
\* the loop of lines 91-98 from record i on: a record _parse_message
\* returns None for adds no message
ParseAll(raws, i, seed, started_at) ==
    IF i > Len(raws) THEN <<>>
    ELSE (IF ParseRaises(raws[i]) THEN <<>>
          ELSE <<ParseMessage(raws[i], i, seed, started_at)>>)
         \o ParseAll(raws, i + 1, seed, started_at)

Uuid4Seeds == {1, 2}

EmptyMetadata ==
    [git_branch |-> "", working_directory |-> "", started_at |-> NoneTs,
     ended_at |-> NoneTs, message_count |-> 0]

ParserIdle ==
    /\ file = [exists |-> FALSE, lines |-> <<>>]
    /\ pc = "idle"
    /\ raw_messages = <<>>
    /\ metadata = EmptyMetadata
    /\ messages = <<>>
    /\ outcome = "idle"

FlattenIdle ==
    /\ fl_content = NumC
    /\ fl_out = <<>>
    /\ fl_again = <<>>
    /\ fl_pc = "idle"

EmbedIdle ==
    /\ em_texts = <<>>
    /\ em_pc = "idle"
    /\ em_i = 0
    /\ em_status = <<>>
    /\ em_value = <<>>
    /\ em_requests = {}
    /\ em_embeddings = <<>>

\* an embeddings list entry: None, or a vector
NoVector     == [some |-> FALSE, v |-> [zero |-> TRUE, of |-> <<>>]]
SomeVector(v) == [some |-> TRUE, v |-> v]

NoCall ==
    [key |-> "", lines |-> <<>>, messages |-> <<>>, given |-> FALSE,
     embeddings |-> <<>>, result |-> "none", conversation_id |-> 0,
     acquired |-> FALSE, wrote |-> FALSE, fresh |-> FALSE]

\* no vector index: CREATE INDEX has not run
NoIndex == [exists |-> FALSE, builds |-> 0]

StoreIdle ==
    /\ db_conversations = {}
    /\ db_messages = {}
    /\ db_events = {}
    /\ db_next_id = 1
    /\ db_index = NoIndex
    /\ st_acquired = 0
    /\ st_calls = 0
    /\ st_last = NoCall

NoQuery ==
    [query_embedding |-> [zero |-> TRUE, of |-> <<>>], limit |-> 0,
     similarity_threshold |-> 0, project_filter |-> "",
     date_after |-> NoneTs, date_before |-> NoneTs]

NoRequest ==
    [q |-> <<>>, project |-> "", date_after |-> NoneTs, date_before |-> NoneTs,
     role |-> "", threshold |-> 0, limit |-> 0, model |-> "ok"]
NoResponse == [status |-> 0, total |-> 0, detail |-> ""]

SearchIdle ==
    /\ sr_pc = "idle"
    /\ sr_query = NoQuery
    /\ sr_results = <<>>
    /\ api_request = NoRequest
    /\ api_response = NoResponse

NoTotals == [conversations |-> 0, messages |-> 0, embedded |-> 0]
NoLoop ==
    [p |-> 0, c |-> 0, parsed |-> <<>>, vectors |-> <<>>,
     project_messages |-> 0, project_embedded |-> 0]
NoStats == [conversation_count |-> 0, message_count |-> 0,
            embedded_message_count |-> 0]
NoReport == [printed |-> FALSE, totals_printed |-> FALSE, totals |-> NoTotals,
             stats |-> NoStats]

IngestIdle ==
    /\ in_run = [pipeline |-> "none", available |-> TRUE, units |-> <<>>, split |-> 0]
    /\ in_pc = "idle"
    /\ in_loop = NoLoop
    /\ in_totals = NoTotals
    /\ in_calls = <<>>
    /\ in_touched = {}
    /\ in_report = NoReport

Raise(exc) ==
    /\ pc' = "raised"
    /\ outcome' = exc

CheckFile ==
    /\ pc = "start"
    /\ IF file.exists
       THEN pc' = "read" /\ UNCHANGED outcome
       ELSE Raise("FileNotFoundError")
    /\ UNCHANGED <<file, raw_messages, metadata, messages, flattenVars, embedVars, storeVars, searchVars, ingestVars>>

ReadLines ==
    /\ pc = "read"
    /\ raw_messages' = SelectSeq(file.lines, Decodes)
    /\ IF raw_messages' = <<>>
       THEN Raise("ValueError")
       ELSE pc' = "metadata" /\ UNCHANGED outcome
    /\ UNCHANGED <<file, metadata, messages, flattenVars, embedVars, storeVars, searchVars, ingestVars>>

ExtractMetadata ==
    /\ pc = "metadata"
    /\ LET m == ExtractConversationMetadata(raw_messages)
       IN  IF m.raised
           THEN Raise("TypeError") /\ UNCHANGED metadata
           ELSE /\ metadata' = [EmptyMetadata EXCEPT
                                  !.git_branch = m.git_branch,
                                  !.working_directory = m.working_directory]
                /\ pc' = "parse"
                /\ UNCHANGED outcome
    /\ UNCHANGED <<file, raw_messages, messages, flattenVars, embedVars, storeVars, searchVars, ingestVars>>

ParseMessages ==
    /\ pc = "parse"
    /\ \E seed \in Uuid4Seeds :
          messages' = ParseAll(raw_messages, 1, seed, metadata.started_at)
    /\ pc' = "fix"
    /\ UNCHANGED <<file, raw_messages, metadata, outcome, flattenVars, embedVars, storeVars, searchVars, ingestVars>>

FixTimestamps ==
    /\ pc = "fix"
    /\ messages' = FixMissingTimestamps(messages)
    /\ pc' = "update"
    /\ UNCHANGED <<file, raw_messages, metadata, outcome, flattenVars, embedVars, storeVars, searchVars, ingestVars>>

UpdateMetadata ==
    /\ pc = "update"
    /\ LET tss == Timestamps(messages)
       IN  IF messages # <<>> /\ tss # {} /\ MixedAwareness(tss)
           THEN Raise("TypeError") /\ UNCHANGED metadata
           ELSE /\ metadata' =
                     IF messages = <<>> THEN metadata
                     ELSE IF tss = {}
                          THEN [metadata EXCEPT !.message_count = Len(messages)]
                          ELSE [metadata EXCEPT
                                  !.message_count = Len(messages),
                                  !.started_at = MinTs(tss),
                                  !.ended_at = MaxTs(tss)]
                /\ pc' = "done"
                /\ outcome' = "returned"
    /\ UNCHANGED <<file, raw_messages, messages, flattenVars, embedVars, storeVars, searchVars, ingestVars>>

(***************************************************************************)
(* The files parsed.  A multi-line file draws its lines from FileLines;    *)
(* a one-record file holds any record of ObjectRecords.                    *)
(***************************************************************************)
Obj(type, message, tur, ts, uuid, gb, cwd) ==
    [kind |-> "object", type |-> type, message |-> message, tur |-> tur,
     timestamp |-> ts, uuid |-> uuid, gitBranch |-> gb, cwd |-> cwd]

Payload(role) == [tag |-> "obj", role |-> role, content |-> StrC(<<"a">>)]
NoTur    == [tag |-> "absent"]
OtherTur == [tag |-> "present", shape |-> "other"]
IsoTs(t, aware) == [tag |-> "iso", t |-> t, aware |-> aware]

FileTimestamps ==
    {[tag |-> "absent"], IsoTs(1, TRUE), IsoTs(1, FALSE)}

FileLines ==
    {BlankLine, MalformedLine, ScalarLine, ArrayLine}
      \cup {Obj("summary", [tag |-> "absent"], NoTur, ts, "u1", "", "") :
              ts \in {[tag |-> "absent"], IsoTs(1, TRUE)}}
      \cup {Obj("user", Payload("user"), OtherTur, ts, "u1", "", "") :
              ts \in FileTimestamps}
      \cup {Obj("assistant", Payload("reviewer"), NoTur, ts, "", "", "") :
              ts \in FileTimestamps}
      \cup {Obj("assistant", Payload("reviewer"), NoTur, [tag |-> "number"], "", "", ""),
            Obj("user", Payload("user"), NoTur, IsoTs(2, TRUE), "u1", "main", "/w")}

Files ==
    {[exists |-> FALSE, lines |-> <<>>]}
      \cup {[exists |-> TRUE, lines |-> ls] : ls \in SeqsUpTo(FileLines, MaxLines)}
      \cup {[exists |-> TRUE, lines |-> <<r>>] :
              r \in {o \in ObjectRecords : o.gitBranch = "" /\ o.cwd = ""}}

Init ==
    /\ file \in Files
    /\ pc = "start"
    /\ raw_messages = <<>>
    /\ metadata = EmptyMetadata
    /\ messages = <<>>
    /\ outcome = "running"
    /\ FlattenIdle
    /\ EmbedIdle
    /\ StoreIdle
    /\ SearchIdle
    /\ IngestIdle

Next ==
    \/ CheckFile
    \/ ReadLines
    \/ ExtractMetadata
    \/ ParseMessages
    \/ FixTimestamps
    \/ UpdateMetadata

Spec == Init /\ [][Next]_vars

(***************************************************************************)
(* Properties of parse_conversation_file (specification Spec).             *)
(***************************************************************************)
Parsed == pc \in {"fix", "update", "done"} \/ (pc = "raised" /\ messages # <<>>)
Rec(k) == raw_messages[messages[k].rec]

\* the role a record declares, as the claims word it: the role of its
\* message payload, or the record type when the payload declares none
StatedRole(raw) ==
    IF raw.message.tag = "obj" /\ raw.message.role # "absent"
    THEN raw.message.role
    ELSE raw.type

\* the tool-result condition: the content is a list holding a block of type
\* tool_result, or the record carries toolUseResult
ToolResultCondition(raw) ==
    \/ /\ raw.message.tag = "obj"
       /\ raw.message.content.k = "list"
       /\ \E i \in 1..Len(raw.message.content.items) :
             /\ raw.message.content.items[i].k = "dict"
             /\ raw.message.content.items[i].type = "tool_result"
    \/ raw.tur.tag = "present"

\* C1 as stated: every parsed message of a record whose role is user and
\* that meets the tool-result condition has role tool.
C1_AsStated ==
    Parsed =>
        \A k \in 1..Len(messages) :
            (StatedRole(Rec(k)) = "user" /\ ToolResultCondition(Rec(k)))
                => messages[k].role = "tool"

\* C1 (amended): every parsed message of a record that is not summary-typed,
\* whose role is user and that meets the tool-result condition, has role
\* tool; and no parsed message of a record of role user that meets the
\* condition, summary-typed or not, has role user.
C1_ToolReclassified ==
    Parsed =>
        \A k \in 1..Len(messages) :
            (StatedRole(Rec(k)) = "user" /\ ToolResultCondition(Rec(k)))
                => /\ messages[k].role # "user"
                   /\ Rec(k).type # "summary" => messages[k].role = "tool"

C1_Witness ==
    /\ pc = "done"
    /\ \E k \in 1..Len(messages) :
          /\ Rec(k).type = "absent" \/ Rec(k).type = "user"
          /\ StatedRole(Rec(k)) = "user"
          /\ Rec(k).tur.tag = "absent"
          /\ ToolResultCondition(Rec(k))
          /\ messages[k].role = "tool"

\* C2: once the file is parsed, every decoded non-summary record that
\* declares a role in its payload and does not meet the tool-result
\* condition has a message, whose role is the declared string.
C2_RolePassesThrough ==
    pc \in {"done", "raised"} =>
        \A i \in 1..Len(raw_messages) :
            LET raw == raw_messages[i]
            IN  (/\ raw.kind = "object"
                 /\ raw.type # "summary"
                 /\ raw.message.tag = "obj"
                 /\ raw.message.role # "absent"
                 /\ ~(raw.message.role = "user" /\ ToolResultCondition(raw)))
                => \E k \in 1..Len(messages) :
                      messages[k].rec = i /\ messages[k].role = raw.message.role

\* C4: when parse_conversation_file returns, no message has a null
\* timestamp; a message whose record had a parseable timestamp keeps it; any
\* other message has the timestamp of the nearest following message whose
\* record had a parseable one, or the file's modification time.
HadTimestamp(k) == Rec(k).timestamp.tag = "iso"
C19_SummaryTakesStartedAt ==
    outcome = "returned" =>
        /\ \A k \in 1..Len(messages) :
              (MsgType(Rec(k)) = "summary" /\ Rec(k).timestamp.tag = "absent")
                  => messages[k].timestamp = metadata.started_at
        /\ \A k \in 1..Len(messages) :
              /\ metadata.started_at.t <= messages[k].timestamp.t
              /\ metadata.ended_at.t >= messages[k].timestamp.t
        /\ messages # <<>> =>
              /\ metadata.started_at \in Timestamps(messages)
              /\ metadata.ended_at \in Timestamps(messages)

(***************************************************************************)
(* SpecMetadata: parse_conversation_file over files whose records differ   *)
(* in their gitBranch and cwd fields.                                      *)
(***************************************************************************)
MetadataLines ==
    {Obj("user", Payload("user"), NoTur, IsoTs(1, TRUE), "u1", gb, wd) :
        gb \in {"", "main", "dev"}, wd \in {"", "/w", "/x"}}

InitMetadata ==
    /\ file \in {[exists |-> TRUE, lines |-> ls] :
                    ls \in SeqsUpTo(MetadataLines, MaxLines)}
    /\ pc = "start"
    /\ raw_messages = <<>>
    /\ metadata = EmptyMetadata
    /\ messages = <<>>
    /\ outcome = "running"
    /\ FlattenIdle
    /\ EmbedIdle
    /\ StoreIdle
    /\ SearchIdle
    /\ IngestIdle

SpecMetadata == InitMetadata /\ [][Next]_vars

\* the first non-empty value of a sequence of field values, "" when there
\* is none
FirstNonEmpty(values) ==
    LET at == {i \in 1..Len(values) : values[i] # ""}
    IN  IF at = {} THEN ""
        ELSE values[CHOOSE i \in at : \A j \in at : i <= j]

\* C22: the conversation's git_branch is the first non-empty gitBranch of
\* the records in file order and its working_directory is the first
\* non-empty cwd, each whatever the other field holds; a field no record
\* carries stays absent.
C22_FirstBranchFirstCwd ==
    pc \in {"parse", "fix", "update", "done"} =>
        /\ metadata.git_branch =
              FirstNonEmpty([i \in 1..Len(raw_messages) |-> raw_messages[i].gitBranch])
        /\ metadata.working_directory =
              FirstNonEmpty([i \in 1..Len(raw_messages) |-> raw_messages[i].cwd])

\* C5: parse_conversation_file raises FileNotFoundError exactly when the
\* file is absent and the empty-input error exactly when no line decodes;
\* whenever a line decodes it returns, with one message per decoded line in
\* file order.
NoLineDecodes == \A i \in 1..Len(file.lines) : ~Decodes(file.lines[i])
C5_FailsOnlyOnAbsentOrEmpty ==
    pc \in {"done", "raised"} =>
        /\ outcome = "FileNotFoundError" <=> ~file.exists
        /\ outcome = "ValueError" <=> (file.exists /\ NoLineDecodes)
        /\ (file.exists /\ ~NoLineDecodes) =>
              /\ outcome = "returned"
              /\ Len(messages) = Len(raw_messages)
              /\ \A k \in 1..Len(messages) : messages[k].rec = k

(***************************************************************************)
(* OllamaEmbeddings.  A text is a sequence of one-character tokens; " " is *)
(* the whitespace character.  The configuration (EmbeddingConfig) is       *)
(* scaled down: batch_size and max_text_length are small.                  *)
(***************************************************************************)
batch_size      == 2
max_text_length == 2

\* np.zeros(768): the zero-vector
ZeroVector == [zero |-> TRUE, of |-> <<>>]
\* the normalised embedding the service computes for a prompt
Embedding(prompt) == [zero |-> FALSE, of |-> prompt]

RECURSIVE SplitJoin(_)
\* " ".join(text.split()): runs of whitespace between words become one
\* space, leading and trailing whitespace goes
SplitJoin(text) ==
    IF Len(text) = 0 THEN <<>>
    ELSE IF Head(text) = " " THEN SplitJoin(Tail(text))
    ELSE LET rest == Tail(text)
             more == \E k \in 1..Len(rest) : rest[k] # " "
             sep  == Len(rest) > 0 /\ rest[1] = " " /\ more
         IN  <<Head(text)>> \o (IF sep THEN <<" ">> ELSE <<>>)
                 \o SplitJoin(rest)

Truncate(text, n) == IF Len(text) > n THEN SubSeq(text, 1, n) ELSE text

\* _preprocess_text without the blank check and the whitespace clean-up
PreprocessText_NoBlankCheck(text) == Truncate(text, max_text_length)

\* OllamaEmbeddings._preprocess_text
PreprocessText(text) ==
    IF Len(text) = 0 \/ \A k \in 1..Len(text) : text[k] = " "
    THEN <<>>
    ELSE Truncate(SplitJoin(text), max_text_length)

EmbedTexts ==
    { <<>>, <<" ">>, <<"a">>, <<" ", "b", " ">>, <<"a", " ", " ", "b">> }

\* the indices of the group that starts at offset i: texts[i:i+batch_size]
Group(i, n) == {j \in 1..n : i < j /\ j <= i + batch_size}
Settled(st) == st \in {"short", "ok", "failed"}
\* a wait that ends with the first task of the group to settle
GroupSettled_FirstCompleted(i) ==
    \E j \in Group(i, Len(em_texts)) : Settled(em_status[j])

\* asyncio.gather has every task of the group's result
GroupSettled(i) == \A j \in Group(i, Len(em_texts)) : Settled(em_status[j])

\* the group's results with the failed items left out
BatchEmbeddings_DropFailed(i) ==
    LET n  == Len(em_texts)
        hi == IF i + batch_size < n THEN i + batch_size ELSE n
        IsValue(j) == em_status[i + j] # "failed"
    IN  [k \in 1..Cardinality({j \in 1..(hi - i) : IsValue(j)}) |->
            em_value[i + CHOOSE j \in 1..(hi - i) :
                /\ IsValue(j)
                /\ Cardinality({m \in 1..j : IsValue(m)}) = k]]

\* lines 177-185: the group's results in task order, a zero-vector in the
\* place of an exception
BatchEmbeddings(i) ==
    LET n  == Len(em_texts)
        hi == IF i + batch_size < n THEN i + batch_size ELSE n
    IN  [j \in 1..(hi - i) |->
            IF em_status[i + j] = "failed" THEN ZeroVector ELSE em_value[i + j]]

InitEmbed ==
    /\ ParserIdle
    /\ FlattenIdle
    /\ StoreIdle
    /\ SearchIdle
    /\ IngestIdle
    /\ em_texts \in SeqsUpTo(EmbedTexts, MaxTexts)
    /\ em_pc = "call"
    /\ em_i = 0
    /\ em_status = [j \in 1..Len(em_texts) |-> "waiting"]
    /\ em_value = [j \in 1..Len(em_texts) |-> ZeroVector]
    /\ em_requests = {}
    /\ em_embeddings = <<>>

\* embed_batch, lines 159-162
EmbedBatchCall ==
    /\ em_pc = "call"
    /\ em_pc' = IF em_texts = <<>> THEN "done" ELSE "loop"
    /\ UNCHANGED <<em_texts, em_i, em_status, em_value, em_requests,
                   em_embeddings, parserVars, flattenVars, storeVars, searchVars, ingestVars>>

\* lines 165-175: the tasks of the next group are created and gathered
DispatchGroup ==
    /\ em_pc = "loop"
    /\ em_i < Len(em_texts)
    /\ em_status' = [j \in 1..Len(em_texts) |->
                        IF j \in Group(em_i, Len(em_texts)) THEN "created"
                        ELSE em_status[j]]
    /\ em_pc' = "gather"
    /\ UNCHANGED <<em_texts, em_i, em_value, em_requests, em_embeddings,
                   parserVars, flattenVars, storeVars, searchVars, ingestVars>>

\* embed_single up to its await: an empty processed text returns the
\* zero-vector at once, any other is posted to the service
EmbedSingleStart(j) ==
    /\ em_status[j] = "created"
    /\ LET processed_text == PreprocessText(em_texts[j])
       IN  IF processed_text = <<>>
           THEN /\ em_status' = [em_status EXCEPT ![j] = "short"]
                /\ em_value' = [em_value EXCEPT ![j] = ZeroVector]
                /\ UNCHANGED em_requests
           ELSE /\ em_status' = [em_status EXCEPT ![j] = "sent"]
                /\ em_requests' = em_requests \cup
                                    {[idx |-> j, prompt |-> processed_text]}
                /\ UNCHANGED em_value
    /\ UNCHANGED <<em_texts, em_pc, em_i, em_embeddings, parserVars, flattenVars, storeVars, searchVars, ingestVars>>

\* the response arrives: embed_single returns the normalised embedding
EmbedSingleReturn(j) ==
    /\ em_status[j] = "sent"
    /\ em_status' = [em_status EXCEPT ![j] = "ok"]
    /\ em_value' = [em_value EXCEPT ![j] = Embedding(PreprocessText(em_texts[j]))]
    /\ UNCHANGED <<em_texts, em_pc, em_i, em_requests, em_embeddings,
                   parserVars, flattenVars, storeVars, searchVars, ingestVars>>

\* the request fails (transport error, HTTP status, malformed response):
\* embed_single raises
EmbedSingleRaise(j) ==
    /\ em_status[j] = "sent"
    /\ em_status' = [em_status EXCEPT ![j] = "failed"]
    /\ UNCHANGED <<em_texts, em_pc, em_i, em_value, em_requests, em_embeddings,
                   parserVars, flattenVars, storeVars, searchVars, ingestVars>>

\* gather returns once every task of the group has a result; lines 177-185
CollectGroup ==
    /\ em_pc = "gather"
    /\ GroupSettled(em_i)
    /\ em_embeddings' = em_embeddings \o BatchEmbeddings(em_i)
    /\ em_i' = em_i + batch_size
    /\ em_pc' = "loop"
    /\ UNCHANGED <<em_texts, em_status, em_value, em_requests,
                   parserVars, flattenVars, storeVars, searchVars, ingestVars>>

\* lines 192-193
EmbedBatchReturn ==
    /\ em_pc = "loop"
    /\ em_i >= Len(em_texts)
    /\ em_pc' = "done"
    /\ UNCHANGED <<em_texts, em_i, em_status, em_value, em_requests,
                   em_embeddings, parserVars, flattenVars, storeVars, searchVars, ingestVars>>

NextEmbed ==
    \/ EmbedBatchCall
    \/ DispatchGroup
    \/ \E j \in 1..Len(em_texts) : EmbedSingleStart(j)
    \/ \E j \in 1..Len(em_texts) : EmbedSingleReturn(j)
    \/ \E j \in 1..Len(em_texts) : EmbedSingleRaise(j)
    \/ CollectGroup
    \/ EmbedBatchReturn

SpecEmbed == InitEmbed /\ [][NextEmbed]_vars

(***************************************************************************)
(* Properties of embed_batch and embed_single (specification SpecEmbed).   *)
(***************************************************************************)
\* empty or whitespace-only
IsBlank(text) == \A k \in 1..Len(text) : text[k] = " "
InFlight == {j \in 1..Len(em_texts) : em_status[j] = "sent"}
GroupOf(j) == (j - 1) \div batch_size

\* C7: when embed_batch returns, its list is as long as the input; a
\* position whose call failed holds the zero-vector and every other position
\* holds what embed_single returned for the text at that position.
C7_BatchKeepsPositions ==
    em_pc = "done" =>
          /\ Len(em_embeddings) = Len(em_texts)
          /\ \A j \in 1..Len(em_texts) :
                /\ em_status[j] = "failed" => em_embeddings[j] = ZeroVector
                /\ em_status[j] = "ok" =>
                      /\ em_embeddings[j] = em_value[j]
                      /\ em_embeddings[j].of = PreprocessText(em_texts[j])
                      /\ ~em_embeddings[j].zero
                /\ em_status[j] = "short" => em_embeddings[j] = ZeroVector

\* the scenario of the specification: three texts, the middle call fails
C7_Witness ==
    /\ em_pc = "done"
    /\ Len(em_texts) = 3
    /\ em_status = <<"ok", "failed", "ok">>
    /\ em_embeddings[2] = ZeroVector
    /\ ~em_embeddings[1].zero /\ ~em_embeddings[3].zero
    /\ em_embeddings[1] # em_embeddings[3]

\* C8: an embed_single call on an empty or whitespace-only text returns the
\* zero-vector and sends no request.
C8_BlankTextNoRequest ==
    \A j \in 1..Len(em_texts) :
        (IsBlank(em_texts[j]) /\ em_status[j] \notin {"waiting", "created"})
            => /\ em_status[j] = "short"
               /\ em_value[j] = ZeroVector
               /\ \A r \in em_requests : r.idx # j

C8_Witness ==
    \E j \in 1..Len(em_texts) :
        /\ em_texts[j] = <<" ">>
        /\ em_status[j] = "short"
        /\ em_requests = {}
        /\ \E k \in 1..Len(em_texts) : em_texts[k] = <<>> /\ em_status[k] = "short"

\* C9: at most batch_size requests are in flight; no item of a later group
\* is dispatched before every item of the earlier groups has settled; and
\* embed_batch returns only after every item has settled.
C9_BoundedFanOut ==
    /\ Cardinality(InFlight) <= batch_size
    /\ \A i \in 1..Len(em_texts), j \in 1..Len(em_texts) :
          (GroupOf(i) < GroupOf(j) /\ em_status[j] # "waiting")
              => Settled(em_status[i])
    /\ em_pc = "done" => \A j \in 1..Len(em_texts) : Settled(em_status[j])

\* a full group in flight at once, with a later group still waiting
C9_Witness ==
    /\ Cardinality(InFlight) = batch_size
    /\ \E j \in 1..Len(em_texts) : em_status[j] = "waiting"

(***************************************************************************)
(* ConversationDatabase.store_conversation.  The tables follow the SQL of  *)
(* the method: conversations is unique on (session_id, file_path), which   *)
(* the model takes together as key; messages is unique on                  *)
(* (conversation_id, message_uuid).  The call runs in one transaction, so  *)
(* it is one step: it commits all its writes or none.                      *)
(***************************************************************************)
ConversationKeys == {"k1", "k2"}

\* the messages parse_conversation_file returns for a file of these lines
\* (a file whose parse returns)
ParsedMessagesOf(lines, seed) ==
    FixMissingTimestamps(ParseAll(SelectSeq(lines, Decodes), 1, seed, NoneTs))

UserLine     == Obj("user", Payload("user"), NoTur, IsoTs(1, TRUE), "u1", "", "")
ToolLine     == Obj("user", Payload("user"),
                    [tag |-> "present", shape |-> "todos"], IsoTs(1, TRUE), "u1", "", "")
SummaryLine  == Obj("summary", [tag |-> "absent"], NoTur, [tag |-> "absent"], "u1", "", "")
ReviewerLine == Obj("assistant", Payload("reviewer"), NoTur, IsoTs(1, TRUE), "", "", "")
\* a record whose toolUseResult is a number other than 0: truthy, and no
\* container for the "in" tests of _extract_event_type
NumberToolLine == Obj("user", Payload("user"),
                      [tag |-> "present", shape |-> "number"], IsoTs(1, TRUE), "", "", "")

\* records whose toolUseResult is an object with a content field, and the
\* empty object {}
ContentToolLine == Obj("user", Payload("user"),
                       [tag |-> "present", shape |-> "content"], IsoTs(1, TRUE), "", "", "")
EmptyToolLine   == Obj("user", Payload("user"),
                       [tag |-> "present", shape |-> "empty"], IsoTs(1, TRUE), "", "", "")
\* a record whose toolUseResult is a string in which the word content occurs
TextToolLine    == Obj("user", Payload("user"),
                       [tag |-> "present", shape |-> "text"], IsoTs(1, TRUE), "", "", "")

\* the files whose messages are stored
StoreFiles ==
    { <<UserLine>>, <<ToolLine>>, <<SummaryLine, ReviewerLine>>,
      <<UserLine, ToolLine>>, <<UserLine, NumberToolLine>>,
      <<ContentToolLine, EmptyToolLine, TextToolLine>> }

\* the embeddings arguments a call is made with: [given, list]
EmbeddingsArgs(msgs) ==
    { [given |-> FALSE, list |-> <<>>],
      [given |-> TRUE,  list |-> <<>>],
      [given |-> TRUE,  list |-> [i \in 1..Len(msgs) |->
                                    SomeVector(Embedding(msgs[i].content))]],
      [given |-> TRUE,  list |-> [i \in 1..Len(msgs) |->
                                    IF i = 1 THEN NoVector
                                    ELSE SomeVector(Embedding(msgs[i].content))]],
      [given |-> TRUE,  list |-> [i \in 1..(Len(msgs) + 1) |->
                                    SomeVector(ZeroVector)]] }

\* line 136: "if embeddings and len(embeddings) != len(messages)"; an empty
\* list is falsy
EmbeddingsRejected(msgs, emb) ==
    emb.given /\ Len(emb.list) # 0 /\ Len(emb.list) # Len(msgs)

\* lines 171-175: the vector stored with message i
EmbeddingVector(emb, i) ==
    IF emb.given /\ Len(emb.list) # 0 /\ emb.list[i].some
    THEN emb.list[i]
    ELSE NoVector

\* "if msg.tool_uses": None and an empty payload are falsy
ToolUsesTruthy(tu) == tu.tag = "present" /\ tu.shape # "empty"

\* ConversationDatabase._extract_event_type: the "in" tests of lines 409-411
\* look for a key in an object and for a substring in a string (shape
\* "text": a string in which the word content occurs)
ExtractEventType(tu) ==
    IF ~ToolUsesTruthy(tu) THEN "none"
    ELSE IF tu.shape = "todos" THEN "todo_updated"
    ELSE IF tu.shape \in {"content", "text"} THEN "tool_result"
    ELSE "tool_use"

\* line 409: "'newTodos' in tool_uses" raises TypeError on a number; the
\* handler at lines 206-210 prints and re-raises
EventTypeRaises(msgs) ==
    \E i \in 1..Len(msgs) :
        msgs[i].tool_uses.tag = "present" /\ msgs[i].tool_uses.shape = "number"

\* project_name = file_path.parent.name (parser.py 118): the directory of the
\* conversation's file
ProjectName(key) == IF key \in {"k1", "k1b", "k1c"} THEN "p1" ELSE "p2"

\* the conversations row of a key, if any
HasConversation(key) == \E c \in db_conversations : c.key = key
ConversationOf(key) == CHOOSE c \in db_conversations : c.key = key

\* a variant whose conflict clause leaves the existing row as it is
UpsertConversation_KeepCount(key, n) ==
    IF HasConversation(key)
    THEN [id |-> ConversationOf(key).id, rows |-> db_conversations]
    ELSE [id   |-> db_next_id,
          rows |-> db_conversations
                     \cup {[id |-> db_next_id, key |-> key, message_count |-> n,
                             project_name |-> ProjectName(key)]}]

\* INSERT ... ON CONFLICT (session_id, file_path) DO UPDATE SET
\* message_count = EXCLUDED.message_count ... RETURNING id   (lines 142-163)
UpsertConversation(key, n) ==
    IF HasConversation(key)
    THEN [id   |-> ConversationOf(key).id,
          rows |-> (db_conversations \ {ConversationOf(key)})
                     \cup {[ConversationOf(key) EXCEPT !.message_count = n]}]
    ELSE [id   |-> db_next_id,
          rows |-> db_conversations
                     \cup {[id |-> db_next_id, key |-> key, message_count |-> n,
                             project_name |-> ProjectName(key)]}]

\* one INSERT may not propose two rows with the same conflict key
\* ("ON CONFLICT DO UPDATE command cannot affect row a second time")
DuplicateUuids(msgs) ==
    \E i \in 1..Len(msgs), j \in 1..Len(msgs) : i # j /\ msgs[i].uuid = msgs[j].uuid

HasMessage(cid, uuid) ==
    \E m \in db_messages : m.conversation_id = cid /\ m.message_uuid = uuid
MessageOf(cid, uuid) ==
    CHOOSE m \in db_messages : m.conversation_id = cid /\ m.message_uuid = uuid

\* a variant whose conflict clause is DO NOTHING
UpsertedMessage_DoNothing(cid, msgs, emb, i) ==
    IF HasMessage(cid, msgs[i].uuid)
    THEN MessageOf(cid, msgs[i].uuid)
    ELSE [id |-> db_next_id + i, conversation_id |-> cid,
          message_uuid |-> msgs[i].uuid, role |-> msgs[i].role,
          embedding |-> EmbeddingVector(emb, i), tool_uses |-> msgs[i].tool_uses,
          timestamp |-> msgs[i].timestamp]

\* a variant whose role column admits three values and stores any other
\* role as user
UpsertedMessage_KnownRoles(cid, msgs, emb, i) ==
    IF HasMessage(cid, msgs[i].uuid)
    THEN [MessageOf(cid, msgs[i].uuid) EXCEPT !.embedding = EmbeddingVector(emb, i)]
    ELSE [id |-> db_next_id + i, conversation_id |-> cid,
          message_uuid |-> msgs[i].uuid,
          role |-> IF msgs[i].role \in {"user", "assistant", "tool"}
                   THEN msgs[i].role ELSE "user",
          embedding |-> EmbeddingVector(emb, i), tool_uses |-> msgs[i].tool_uses,
          timestamp |-> msgs[i].timestamp]

\* the row message i of the call leaves in table messages: INSERT ... ON
\* CONFLICT (conversation_id, message_uuid) DO UPDATE SET embedding =
\* EXCLUDED.embedding ... RETURNING id, message_uuid   (lines 213-225)
UpsertedMessage(cid, msgs, emb, i) ==
    IF HasMessage(cid, msgs[i].uuid)
    THEN [MessageOf(cid, msgs[i].uuid) EXCEPT !.embedding = EmbeddingVector(emb, i)]
    ELSE [id |-> db_next_id + i, conversation_id |-> cid,
          message_uuid |-> msgs[i].uuid, role |-> msgs[i].role,
          embedding |-> EmbeddingVector(emb, i), tool_uses |-> msgs[i].tool_uses,
          timestamp |-> msgs[i].timestamp]

InsertMessages(cid, msgs, emb) ==
    LET replaced == {m \in db_messages :
                        /\ m.conversation_id = cid
                        /\ \E i \in 1..Len(msgs) : msgs[i].uuid = m.message_uuid}
    IN  (db_messages \ replaced)
            \cup {UpsertedMessage(cid, msgs, emb, i) : i \in 1..Len(msgs)}

\* a variant that takes the id of a freshly inserted row for every message
InsertEvents_FreshIds(cid, msgs, emb) ==
    db_events \cup
        {[id |-> db_next_id + Len(msgs) + i, conversation_id |-> cid,
          message_id |-> db_next_id + i,
          event_type |-> ExtractEventType(msgs[i].tool_uses)] :
            i \in {k \in 1..Len(msgs) : ToolUsesTruthy(msgs[k].tool_uses)}}

\* lines 188-205 and 227-246: one technical_events row for every message
\* with a tool_uses payload, carrying the id the bulk insert returned
InsertEvents(cid, msgs, emb) ==
    db_events \cup
        {[id |-> db_next_id + Len(msgs) + i, conversation_id |-> cid,
          message_id |-> UpsertedMessage(cid, msgs, emb, i).id,
          event_type |-> ExtractEventType(msgs[i].tool_uses)] :
            i \in {k \in 1..Len(msgs) : ToolUsesTruthy(msgs[k].tool_uses)}}

ThisCall(key, lines, msgs, emb) ==
    [NoCall EXCEPT !.key = key, !.lines = lines, !.messages = msgs,
                   !.given = emb.given, !.embeddings = emb.list,
                   !.fresh = ~HasConversation(key)
                             \/ \A m \in db_messages :
                                   m.conversation_id # ConversationOf(key).id]

\* line 136-137: the validation error, before any connection is acquired
StoreRejected(key, lines, msgs, emb) ==
    /\ EmbeddingsRejected(msgs, emb)
    /\ st_last' = [ThisCall(key, lines, msgs, emb) EXCEPT !.result = "ValueError"]
    /\ UNCHANGED <<db_conversations, db_messages, db_events, db_next_id, st_acquired>>

\* a variant without "async with conn.transaction()": the conversation
\* upsert, made before the step that fails, stays
StoreRolledBack_NoTransaction(key, lines, msgs, emb) ==
    /\ ~EmbeddingsRejected(msgs, emb)
    /\ DuplicateUuids(msgs) \/ EventTypeRaises(msgs)
    /\ st_acquired' = st_acquired + 1
    /\ st_last' = [ThisCall(key, lines, msgs, emb) EXCEPT
                      !.result = IF EventTypeRaises(msgs) THEN "TypeError"
                                 ELSE "CardinalityViolationError",
                      !.acquired = TRUE]
    /\ db_conversations' = UpsertConversation(key, Len(msgs)).rows
    /\ db_next_id' = db_next_id + 1
    /\ UNCHANGED <<db_messages, db_events>>

\* the transaction of line 140 fails after the conversation upsert, in the
\* derivation of an event type (the loop of lines 169-210) or in the bulk
\* insert, and is rolled back
StoreRolledBack(key, lines, msgs, emb) ==
    /\ ~EmbeddingsRejected(msgs, emb)
    /\ DuplicateUuids(msgs) \/ EventTypeRaises(msgs)
    /\ st_acquired' = st_acquired + 1
    /\ st_last' = [ThisCall(key, lines, msgs, emb) EXCEPT
                      !.result = IF EventTypeRaises(msgs) THEN "TypeError"
                                 ELSE "CardinalityViolationError",
                      !.acquired = TRUE]
    /\ UNCHANGED <<db_conversations, db_messages, db_events, db_next_id>>

\* lines 139-249: the transaction commits
StoreCommitted(key, lines, msgs, emb) ==
    /\ ~EmbeddingsRejected(msgs, emb)
    /\ ~DuplicateUuids(msgs)
    /\ ~EventTypeRaises(msgs)
    /\ LET conv == UpsertConversation(key, Len(msgs))
       IN  /\ db_conversations' = conv.rows
           /\ db_messages' = InsertMessages(conv.id, msgs, emb)
           /\ db_events' = InsertEvents(conv.id, msgs, emb)
           /\ db_next_id' = db_next_id + 2 * Len(msgs) + 1
           /\ st_acquired' = st_acquired + 1
           /\ st_last' = [ThisCall(key, lines, msgs, emb) EXCEPT
                             !.result = "ok", !.conversation_id = conv.id,
                             !.acquired = TRUE,
                             !.wrote = TRUE]

StoreConversation ==
    /\ st_calls < MaxStores
    /\ st_calls' = st_calls + 1
    /\ \E key \in ConversationKeys, lines \in StoreFiles, seed \in Uuid4Seeds :
          LET msgs == ParsedMessagesOf(lines, seed)
          IN  \E emb \in EmbeddingsArgs(msgs) :
                \/ StoreRejected(key, lines, msgs, emb)
                \/ StoreRolledBack(key, lines, msgs, emb)
                \/ StoreCommitted(key, lines, msgs, emb)
    /\ UNCHANGED <<db_index, parserVars, flattenVars, embedVars, searchVars, ingestVars>>

InitStore ==
    /\ ParserIdle
    /\ FlattenIdle
    /\ EmbedIdle
    /\ StoreIdle
    /\ SearchIdle
    /\ IngestIdle

NextStore == StoreConversation

SpecStore == InitStore /\ [][NextStore]_vars

(***************************************************************************)
(* Properties of store_conversation (specification SpecStore).             *)
(***************************************************************************)
\* SELECT role FROM messages WHERE conversation_id = $1 (the tests' re-read)
RolesStored(cid) == {m.role : m \in {r \in db_messages : r.conversation_id = cid}}
RolesPassed(msgs) == {msgs[i].role : i \in 1..Len(msgs)}
LastRecord(i) == SelectSeq(st_last.lines, Decodes)[st_last.messages[i].rec]

C10_MismatchFailsBeforeStorage ==
    (st_last.given /\ Len(st_last.embeddings) # Len(st_last.messages))
        => /\ st_last.result = "ValueError"
           /\ ~st_last.acquired
           /\ ~st_last.wrote

PassedAs(m) ==
    {i \in 1..Len(st_last'.messages) :
        /\ st_last'.result = "ok"
        /\ m.conversation_id = st_last'.conversation_id
        /\ m.message_uuid = st_last'.messages[i].uuid}

\* the vector the call just made supplied for position i
SuppliedVector(i) ==
    IF i <= Len(st_last'.embeddings) THEN st_last'.embeddings[i] ELSE NoVector

\* C12: every store_conversation call leaves at most one messages row per
\* (conversation_id, message_uuid); a row whose key is passed again by a
\* call that succeeds stays one row, with the vector the call supplied and
\* every other column as it was; every other row is left as it was; and
\* the only new rows are those of the keys passed that had no row.
C12_OneMessagePerKey ==
    [][ /\ \A m1 \in db_messages', m2 \in db_messages' :
              (m1.conversation_id = m2.conversation_id
                  /\ m1.message_uuid = m2.message_uuid) => m1 = m2
        /\ \A m \in db_messages :
              IF PassedAs(m) = {}
              THEN m \in db_messages'
              ELSE \A i \in PassedAs(m) :
                      [m EXCEPT !.embedding = SuppliedVector(i)] \in db_messages'
        /\ \A m \in db_messages' \ db_messages :
              \/ PassedAs(m) # {}
              \/ \E old \in db_messages : old.id = m.id
      ]_vars

\* a row stored as role user without a vector, whose key a second call
\* passed again as role tool with a vector: one row, role user, that vector
C12_Witness ==
    /\ st_calls = 2
    /\ st_last.result = "ok"
    /\ Cardinality(db_messages) = 1
    /\ \E m \in db_messages :
          /\ m.conversation_id = st_last.conversation_id
          /\ m.message_uuid = st_last.messages[1].uuid
          /\ m.role = "user"
          /\ st_last.messages[1].role = "tool"
          /\ m.embedding.some
          /\ m.embedding = st_last.embeddings[1]

\* C13: a store_conversation call that fails leaves the three tables as
\* they were; after a call that succeeds the conversation's row, a row for
\* every message passed and a new event row for every message passed with
\* a tool_uses payload are all there.
C13_AllOrNothing ==
    [][ IF st_last'.result = "ok"
        THEN /\ \E c \in db_conversations' :
                   c.id = st_last'.conversation_id /\ c.key = st_last'.key
             /\ \A i \in 1..Len(st_last'.messages) :
                   \E m \in db_messages' :
                      /\ m.conversation_id = st_last'.conversation_id
                      /\ m.message_uuid = st_last'.messages[i].uuid
                      /\ ToolUsesTruthy(st_last'.messages[i].tool_uses) =>
                            \E e \in db_events' \ db_events :
                               /\ e.conversation_id = m.conversation_id
                               /\ e.message_id = m.id
                               /\ e.event_type =
                                     ExtractEventType(st_last'.messages[i].tool_uses)
        ELSE /\ db_conversations' = db_conversations
             /\ db_messages' = db_messages
             /\ db_events' = db_events
      ]_vars

\* a call for a second key that failed in the derivation of an event type,
\* after its conversation upsert: the first key's rows are there, the
\* second key has no row
C13_Witness ==
    /\ st_calls = 2
    /\ st_last.result = "TypeError"
    /\ st_last.acquired
    /\ Cardinality(db_conversations) = 1
    /\ db_messages # {}
    /\ \A c \in db_conversations : c.key # st_last.key

\* C14: every technical_events row a store_conversation call writes has
\* the call's conversation_id and the id of a messages row of that
\* conversation whose message_uuid the call passed (a row its bulk insert
\* returned).
C14_EventsOwnedByMessages ==
    [][ \A e \in db_events' \ db_events :
            /\ st_last'.result = "ok"
            /\ e.conversation_id = st_last'.conversation_id
            /\ \E m \in db_messages' :
                  /\ m.id = e.message_id
                  /\ m.conversation_id = e.conversation_id
                  /\ \E i \in 1..Len(st_last'.messages) :
                        /\ st_last'.messages[i].uuid = m.message_uuid
                        /\ ToolUsesTruthy(st_last'.messages[i].tool_uses)
      ]_vars

\* an event of a second call that belongs to a row the first call inserted
\* (role user) and the second call's bulk insert returned on conflict
C14_Witness ==
    /\ st_calls = 2
    /\ st_last.result = "ok"
    /\ \E e \in db_events, m \in db_messages :
          /\ e.message_id = m.id
          /\ e.conversation_id = m.conversation_id
          /\ e.event_type = "todo_updated"
          /\ m.role = "user"
          /\ Cardinality(db_events) = 1

\* the event type the derivation rule gives a payload
RuleEventType(tu) ==
    IF tu.shape = "todos" THEN "todo_updated"
    ELSE IF tu.shape = "content" THEN "tool_result"
    ELSE "tool_use"

\* the events a call wrote for the message at position i
DerivedFor(i) ==
    {e \in db_events' \ db_events :
        \E m \in db_messages' :
            /\ m.id = e.message_id
            /\ m.conversation_id = e.conversation_id
            /\ m.message_uuid = st_last'.messages[i].uuid}

\* C21: a store_conversation call derives exactly one technical event for
\* every message with a tool_uses payload, of type todo_updated when the
\* payload has a todo-list field, else tool_result when it has a content
\* field, else tool_use; for a message without tool_uses it derives none.
\* (Calls that end in the validation error or in a conflict of the bulk
\* insert derive nothing and are left aside.)
C21_OneEventPerPayload ==
    [][ st_last'.result \in {"ok", "TypeError"} =>
          \A i \in 1..Len(st_last'.messages) :
              LET tu == st_last'.messages[i].tool_uses
              IN  IF tu.tag = "present"
                  THEN /\ Cardinality(DerivedFor(i)) = 1
                       /\ \A e \in DerivedFor(i) : e.event_type = RuleEventType(tu)
                  ELSE DerivedFor(i) = {}
      ]_vars

\* the technical_events rows of the message row of conversation cid with
\* this uuid, after the step
EventsOfMessage(cid, uuid) ==
    {e \in db_events' :
        \E m \in db_messages' :
            /\ m.id = e.message_id
            /\ m.conversation_id = cid
            /\ m.message_uuid = uuid}

\* C28: when a store_conversation call succeeds with the conversation and
\* the messages of the successful call before it, the tables then hold
\* exactly one technical event for every message of the call with an
\* event-deriving tool_uses payload, and none for its other messages.
C28_EventsNotMultiplied ==
    [][ ( /\ st_calls' # st_calls
          /\ st_last.result = "ok"
          /\ st_last'.result = "ok"
          /\ st_last'.key = st_last.key
          /\ st_last'.messages = st_last.messages )
        => \A i \in 1..Len(st_last'.messages) :
              Cardinality(EventsOfMessage(st_last'.conversation_id,
                                          st_last'.messages[i].uuid))
                 = IF ToolUsesTruthy(st_last'.messages[i].tool_uses) THEN 1 ELSE 0
      ]_vars

\* C30: after any sequence of store_conversation calls, every conversations
\* row's message_count is the number of messages rows of that conversation.
C30_MessageCountIsRowCount ==
    \A c \in db_conversations :
        c.message_count = Cardinality({m \in db_messages : m.conversation_id = c.id})

\* C29: when the same unchanged file is parsed and stored again, the second
\* parse yields the messages of the first with the same uuids, also for
\* records without a uuid of their own, and the second call addresses the
\* rows of the first: it adds no messages row.
C29_SameFileSameUuids ==
    [][ ( /\ st_calls' # st_calls
          /\ st_last.result = "ok"
          /\ st_last'.result = "ok"
          /\ st_last'.key = st_last.key
          /\ st_last'.lines = st_last.lines )
        => /\ Len(st_last'.messages) = Len(st_last.messages)
           /\ \A i \in 1..Len(st_last.messages) :
                 st_last'.messages[i].uuid = st_last.messages[i].uuid
           /\ Cardinality(db_messages') = Cardinality(db_messages)
      ]_vars

(***************************************************************************)
(* ConversationDatabase.search_similar.  The query runs in the database;   *)
(* the model evaluates its WHERE, ORDER BY and LIMIT over the two tables.  *)
(* "<=>" is pgvector's cosine distance, here in tenths: 0 between equal    *)
(* directions, up to 20; it is NaN when either vector is all zeros, and    *)
(* PostgreSQL orders NaN above every number.                               *)
(***************************************************************************)
\* the direction of the embedding of a prompt, as a position on a line
Direction(v) ==
    IF v.of = <<"a">> THEN 0
    ELSE IF v.of = <<"a", "b">> THEN 3
    ELSE 10

\* m.embedding <=> $1
CosineDistance(a, b) ==
    IF a.zero \/ b.zero THEN [nan |-> TRUE, d |-> 0]
    ELSE [nan |-> FALSE,
          d |-> IF Direction(a) >= Direction(b)
                THEN Direction(a) - Direction(b)
                ELSE Direction(b) - Direction(a)]

\* float8 "<": NaN is not below anything, every number is below NaN
DistanceLess(x, y) == ~x.nan /\ (y.nan \/ x.d < y.d)
DistanceOf(d) == [nan |-> FALSE, d |-> d]

QueryVectors ==
    { [zero |-> TRUE, of |-> <<>>], [zero |-> FALSE, of |-> <<"a">>],
      [zero |-> FALSE, of |-> <<"b">>] }
Thresholds == {3, 7, 11}
DateFilters == {NoneTs, Ts(2, TRUE)}

\* the arguments of a search_similar call
SearchQueries ==
    [query_embedding : QueryVectors, limit : 0..MaxLimit,
     similarity_threshold : Thresholds, project_filter : {"", "p1"},
     date_after : DateFilters, date_before : DateFilters]

\* JOIN conversations c ON m.conversation_id = c.id
Joined(m) == \E c \in db_conversations : c.id = m.conversation_id
ConversationRow(m) == CHOOSE c \in db_conversations : c.id = m.conversation_id

\* a variant that reads the threshold as a floor on the similarity 1 - d
Matches_SimilarityFloor(m, q) ==
    /\ Joined(m)
    /\ m.embedding.some
    /\ q.project_filter # "" => ConversationRow(m).project_name = q.project_filter
    /\ ~q.date_after.none => m.timestamp.t >= q.date_after.t
    /\ ~q.date_before.none => m.timestamp.t <= q.date_before.t
    /\ ~CosineDistance(m.embedding.v, q.query_embedding).nan
    /\ 10 - CosineDistance(m.embedding.v, q.query_embedding).d
            > q.similarity_threshold

\* lines 302-323 and 339: the rows the WHERE clause keeps
Matches(m, q) ==
    /\ Joined(m)
    /\ m.embedding.some
    /\ q.project_filter # "" => ConversationRow(m).project_name = q.project_filter
    /\ ~q.date_after.none => m.timestamp.t >= q.date_after.t
    /\ ~q.date_before.none => m.timestamp.t <= q.date_before.t
    /\ DistanceLess(CosineDistance(m.embedding.v, q.query_embedding),
                    DistanceOf(q.similarity_threshold))

\* lines 347-360: the dict built from a row
ResultOf(m, q) ==
    [id |-> m.id, role |-> m.role, timestamp |-> m.timestamp,
     similarity |-> CosineDistance(m.embedding.v, q.query_embedding),
     project_name |-> ConversationRow(m).project_name]

\* ORDER BY m.embedding <=> $1 LIMIT $3: the row sequences the database may
\* return (rows at equal distance come in any order)
OrderedLimit(q) ==
    LET kept == {m \in db_messages : Matches(m, q)}
        n    == IF q.limit < Cardinality(kept) THEN q.limit ELSE Cardinality(kept)
        dist(m) == CosineDistance(m.embedding.v, q.query_embedding)
    IN  {r \in [1..n -> kept] :
            /\ \A i \in 1..n, j \in 1..n : i < j =>
                  /\ r[i] # r[j]
                  /\ ~DistanceLess(dist(r[j]), dist(r[i]))
            /\ \A m \in kept :
                  (\A i \in 1..n : r[i] # m) =>
                      \A i \in 1..n : ~DistanceLess(dist(m), dist(r[i]))}

SearchSimilar ==
    /\ sr_pc = "idle"
    /\ \E q \in SearchQueries :
          \E r \in OrderedLimit(q) :
             /\ sr_query' = q
             /\ sr_results' = [i \in 1..Len(r) |-> ResultOf(r[i], q)]
    /\ sr_pc' = "done"
    /\ UNCHANGED <<api_request, api_response>>
    /\ UNCHANGED <<parserVars, flattenVars, embedVars, storeVars, ingestVars>>

\* the vectors a stored row may hold: none, all zeros (a failed embedding
\* stored by the batch pipeline), or the embedding of a content
RowVectors ==
    { NoVector, SomeVector(ZeroVector), SomeVector(Embedding(<<"a">>)),
      SomeVector(Embedding(<<"a", "b">>)), SomeVector(Embedding(<<"b">>)) }
RowRoles == <<"user", "assistant", "tool", "summary">>

\* row i of table messages as store_conversation leaves it
StoredRow(i, vector) ==
    [id |-> i, conversation_id |-> 1 + (i % 2), message_uuid |-> Uuid4(1, i),
     role |-> RowRoles[1 + (i % 4)], embedding |-> vector, tool_uses |-> NoTur,
     timestamp |-> Ts(i, TRUE)]

InitSearch ==
    /\ ParserIdle
    /\ FlattenIdle
    /\ EmbedIdle
    /\ SearchIdle
    /\ IngestIdle
    /\ db_conversations =
          {[id |-> c, key |-> IF c = 1 THEN "k1" ELSE "k2",
            message_count |-> Cardinality({i \in 1..MaxRows : 1 + (i % 2) = c}),
            project_name |-> ProjectName(IF c = 1 THEN "k1" ELSE "k2")] :
              c \in {1, 2}}
    /\ \E vec \in [1..MaxRows -> RowVectors] :
          db_messages = {StoredRow(i, vec[i]) : i \in 1..MaxRows}
    /\ db_events = {}
    /\ db_next_id = MaxRows + 1
    /\ db_index = NoIndex
    /\ st_acquired = 0
    /\ st_calls = 0
    /\ st_last = NoCall

NextSearch == SearchSimilar

SpecSearch == InitSearch /\ [][NextSearch]_vars

(***************************************************************************)
(* Properties of search_similar (specification SpecSearch).                *)
(***************************************************************************)
\* C15: search_similar returns at most limit results, in non-decreasing
\* order of distance, each at a distance below similarity_threshold.
C15_SearchOrderedAndCut ==
    sr_pc = "done" =>
        /\ Len(sr_results) <= sr_query.limit
        /\ \A i \in 1..Len(sr_results), j \in 1..Len(sr_results) :
              i < j => ~DistanceLess(sr_results[j].similarity,
                                     sr_results[i].similarity)
        /\ \A i \in 1..Len(sr_results) :
              DistanceLess(sr_results[i].similarity,
                           DistanceOf(sr_query.similarity_threshold))

\* two results at growing distances, a third vector of the table cut by
\* the threshold
C15_Witness ==
    /\ sr_pc = "done"
    /\ Len(sr_results) = 2
    /\ sr_results[1].similarity.d < sr_results[2].similarity.d
    /\ \E m \in db_messages :
          /\ m.embedding.some
          /\ ~m.embedding.v.zero
          /\ ~DistanceLess(CosineDistance(m.embedding.v, sr_query.query_embedding),
                           DistanceOf(sr_query.similarity_threshold))

(***************************************************************************)
(* GET /api/search (api/main.py, search_conversations).  The handler       *)
(* checks the embedding model, embeds the query text, calls search_similar *)
(* and converts each result into a SearchResult; every exception of the    *)
(* body, the HTTPException of the model check included, is answered with   *)
(* status 500 ("except Exception", line 165).                              *)
(*   model = "ok"       the model is listed and the embedding request      *)
(*                      succeeds                                           *)
(*   model = "missing"  is_model_available() returns False                 *)
(*   model = "error"    the embedding request raises                       *)
(***************************************************************************)
\* the keys of the dict search_similar builds from a row (lines 348-358)
ResultKeys ==
    {"id", "content", "role", "timestamp", "similarity", "project_name",
     "session_id", "git_branch", "file_path"}

\* the keys the handler subscripts (lines 147-154); git_branch is read with
\* get() and may be absent
HandlerReads ==
    {"id", "content", "role", "timestamp", "project_name", "similarity",
     "conversation_id"}

ApiRoles == {"", "user", "assistant"}

\* the query parameters q, project, dateAfter, dateBefore, role, threshold
\* and limit of a request, and what the embedding service does
ApiRequests ==
    [q : {<<" ">>, <<"a">>, <<"b">>}, project : {"", "p1"},
     date_after : DateFilters, date_before : DateFilters, role : ApiRoles,
     threshold : Thresholds, limit : 1..MaxLimit,
     model : {"ok", "missing", "error"}]

\* embed_single(q), lines 116-120 and 140 of embeddings.py
QueryEmbedding(q) ==
    IF PreprocessText(q) = <<>> THEN ZeroVector ELSE Embedding(PreprocessText(q))

\* lines 135-142: the arguments the handler passes to search_similar
SearchArguments(rq) ==
    [query_embedding |-> QueryEmbedding(rq.q), limit |-> rq.limit,
     similarity_threshold |-> rq.threshold, project_filter |-> rq.project,
     date_after |-> rq.date_after, date_before |-> rq.date_before]

SearchConversations ==
    /\ sr_pc = "idle"
    /\ \E rq \in ApiRequests :
          /\ api_request' = rq
          /\ IF rq.model = "missing"
             THEN \* lines 120-121, caught at 165
                  /\ api_response' = [status |-> 500, total |-> 0,
                                      detail |-> "503: Embedding model not available"]
                  /\ UNCHANGED <<sr_query, sr_results>>
             ELSE IF rq.model = "error" /\ PreprocessText(rq.q) # <<>>
             THEN \* embed_single raises (embeddings.py 142-147)
                  /\ api_response' = [status |-> 500, total |-> 0,
                                      detail |-> "embedding"]
                  /\ UNCHANGED <<sr_query, sr_results>>
             ELSE \E r \in OrderedLimit(SearchArguments(rq)) :
                     /\ sr_query' = SearchArguments(rq)
                     /\ sr_results' =
                           [i \in 1..Len(r) |-> ResultOf(r[i], SearchArguments(rq))]
                     /\ api_response' =
                           IF Len(r) > 0 /\ ~(HandlerReads \subseteq ResultKeys)
                           THEN \* result['conversation_id']: KeyError
                                [status |-> 500, total |-> 0,
                                 detail |-> "'conversation_id'"]
                           ELSE [status |-> 200, total |-> Len(r), detail |-> ""]
    /\ sr_pc' = "done"
    /\ UNCHANGED <<parserVars, flattenVars, embedVars, storeVars, ingestVars>>

NextApi == SearchConversations

SpecApi == InitSearch /\ [][NextApi]_vars

(***************************************************************************)
(* Properties of the /api/search handler (specification SpecApi).          *)
(***************************************************************************)
\* the request reached search_similar
Searched == sr_pc = "done" /\ sr_query # NoQuery

\* C26: when the request carries a role filter, every result of the search
\* has that role; every result matches the project and date filters too.
C26_ResultsMatchFilters ==
    Searched =>
        \A i \in 1..Len(sr_results) :
           /\ api_request.role # "" => sr_results[i].role = api_request.role
           /\ api_request.project # ""
                 => sr_results[i].project_name = api_request.project
           /\ ~api_request.date_after.none
                 => sr_results[i].timestamp.t >= api_request.date_after.t
           /\ ~api_request.date_before.none
                 => sr_results[i].timestamp.t <= api_request.date_before.t

\* C27: every key the handler reads is a key of the results of
\* search_similar, and a search that matches at least one message is
\* answered with status 200.
C27_MatchingSearchSucceeds ==
    (Searched /\ Len(sr_results) > 0) =>
        /\ HandlerReads \subseteq ResultKeys
        /\ api_response.status = 200

(***************************************************************************)
(* The ingestion scripts: ingest_conversations of scripts/ingest_flexible  *)
(* ("flexible": projects, each parsed as a whole, then one conversation at *)
(* a time), ingest_conversations_improved of scripts/ingest.py             *)
(* ("improved": one file at a time) and ingest_conversations of            *)
(* scripts/ingest.py ("flat": all files of the directory parsed into one   *)
(* list of messages first).  A run is a list of conversation files, for    *)
(* "flexible" in two project directories.  What parse_conversation_file,        *)
(* embed_batch and store_conversation do with a file is taken from their   *)
(* models above: a parse returns or raises; embed_batch returns a vector   *)
(* per text, all zeros where the text was blank or the request failed;     *)
(* store_conversation fails on two messages with one uuid.                 *)
(*   kind = "short"   content of at most 10 characters after strip()       *)
(*   kind = "long"    content of more than 10 characters after strip()     *)
(*   kind = "notstr"  content that is no string (the text of a single      *)
(*                    block of type text that is null)                     *)
(*   fails            the embedding request for the content fails          *)
(***************************************************************************)
Msg(uuid, kind, text, fails) ==
    [uuid |-> uuid, kind |-> kind, text |-> text, fails |-> fails,
     role |-> "user", tool_uses |-> NoTur, timestamp |-> Ts(1, TRUE)]

Unparsable == [parses |-> FALSE, messages |-> <<>>]
OneLong    == [parses |-> TRUE, messages |-> <<Msg("u1", "long", "m1", FALSE)>>]
LongFails  == [parses |-> TRUE, messages |-> <<Msg("u1", "long", "m1", TRUE)>>]
ShortLong  == [parses |-> TRUE,
               messages |-> <<Msg("u1", "short", "m1", FALSE),
                              Msg("u2", "long", "m2", FALSE)>>]
DupUuid    == [parses |-> TRUE,
               messages |-> <<Msg("u1", "long", "m1", FALSE),
                              Msg("u1", "short", "m2", FALSE)>>]
NotString  == [parses |-> TRUE, messages |-> <<Msg("u1", "notstr", "m1", FALSE)>>]
OtherLong  == [parses |-> TRUE, messages |-> <<Msg("u3", "long", "m3", FALSE)>>]

IngestUnits ==
    {Unparsable, OneLong, LongFails, ShortLong, DupUuid, NotString, OtherLong}

\* what the outer loop walks: the project directories handed to
\* ingest_conversations (ingest_flexible.py 117), each a list of files, or
\* the one list input_path.rglob("*.jsonl") of ingest.py 222
Projects ==
    IF in_run.pipeline = "flexible"
    THEN <<SubSeq(in_run.units, 1, in_run.split),
           SubSeq(in_run.units, in_run.split + 1, Len(in_run.units))>>
    ELSE <<in_run.units>>
\* (session_id, file_path) of file i of project p
FileKeys == <<<<"k1", "k1b", "k1c">>, <<"k2", "k2b", "k2c">>>>
\* the file the loops are at: its place in the run and its contents
FileId == <<in_loop.p, in_loop.parsed[in_loop.c]>>
FileAt == Projects[in_loop.p][in_loop.parsed[in_loop.c]]

RECURSIVE FlatOrigins(_)
\* ingest.py 51: all_messages of parse_conversation_files, as the files the
\* messages came from (parsed: the indices of the files whose parse returned)
FlatOrigins(parsed) ==
    IF Len(parsed) = 0 THEN <<>>
    ELSE [i \in 1..Len(Projects[1][Head(parsed)].messages) |-> <<1, Head(parsed)>>]
            \o FlatOrigins(Tail(parsed))
FlatMessages(parsed) ==
    [i \in 1..Len(FlatOrigins(parsed)) |->
        LET o == FlatOrigins(parsed)[i]
            before == Cardinality({j \in 1..(i - 1) : FlatOrigins(parsed)[j] = o})
        IN  Projects[1][o[2]].messages[before + 1]]

\* the conversation, the messages and the files the messages came from of
\* the store_conversation call the run is about to make.  ingest.py 95-133:
\* no message's metadata has a source_file entry, so the match of line 100
\* never succeeds and every message falls to conversations[0] (line 106);
\* the loop therefore makes one call, at line 128, with all the messages.
CallFile == IF in_run.pipeline = "flat" THEN <<1, in_loop.parsed[1]>> ELSE FileId
CallMessages ==
    IF in_run.pipeline = "flat" THEN FlatMessages(in_loop.parsed) ELSE FileAt.messages
CallOrigins ==
    IF in_run.pipeline = "flat" THEN FlatOrigins(in_loop.parsed)
    ELSE [i \in 1..Len(FileAt.messages) |-> FileId]

\* len(m.content.strip()) > 10
Substantial(m) == m.kind = "long"

\* what embed_conversations returns for one content: the zero-vector for a
\* short content (replaced by "" before embed_batch) and for a request
\* that fails, which every request does when the model is missing
EmbedResult(m) ==
    IF m.kind = "long" /\ ~m.fails /\ in_run.available
    THEN Embedding(<<m.text>>)
    ELSE ZeroVector

\* ingest_flexible.py 141-149: embedding_dict maps a uuid to the vector of
\* the last substantial message with that uuid; full_embeddings looks every
\* message's uuid up in it
FullEmbeddings(msgs) ==
    [i \in 1..Len(msgs) |->
        LET same == {j \in 1..Len(msgs) :
                        Substantial(msgs[j]) /\ msgs[j].uuid = msgs[i].uuid}
        IN  IF same = {} THEN NoVector
            ELSE SomeVector(EmbedResult(
                    msgs[CHOOSE j \in same : \A k \in same : k <= j]))]

\* ingest.py 247-248: embed_conversations over every message's content
AllEmbeddings(msgs) == [i \in 1..Len(msgs) |-> SomeVector(EmbedResult(msgs[i]))]

\* the content of some message is no string: ".strip()" raises
\* AttributeError (ingest_flexible.py 141, embeddings.py 209)
ContentRaises(msgs) == \E i \in 1..Len(msgs) : msgs[i].kind = "notstr"

CountSubstantial(msgs) == Cardinality({i \in 1..Len(msgs) : Substantial(msgs[i])})

\* await db.initialize()   (ingest_flexible.py 111, ingest.py 218); the flat
\* pipeline begins with its parse and initializes the database at line 85
IngestInitialize ==
    /\ in_pc = "init"
    /\ in_pc' = IF in_run.pipeline = "improved" THEN "check" ELSE "enter"
    /\ in_loop' = [NoLoop EXCEPT !.p = 1]
    /\ UNCHANGED <<in_run, in_totals, in_calls, in_touched, in_report>>
    /\ UNCHANGED <<parserVars, flattenVars, embedVars, storeVars, searchVars>>

\* ingest.py 228-231 and 65-68: "if not await embedder.is_model_available():
\* raise RuntimeError"; ingest_flexible.py has no such step
CheckModel ==
    /\ in_pc = "check"
    /\ in_pc' = IF ~in_run.available THEN "failed"
               ELSE IF in_run.pipeline = "flat" THEN "conv" ELSE "enter"
    /\ UNCHANGED <<in_run, in_loop, in_totals, in_calls, in_touched, in_report>>
    /\ UNCHANGED <<parserVars, flattenVars, embedVars, storeVars, searchVars>>

\* ingest_flexible.py 117-135: a directory without files is skipped;
\* parse_conversation_files_grouped parses every file of the directory and
\* leaves out the ones whose parse raises.  ingest.py 233: the loop over the
\* files starts, nothing is parsed yet.  ingest.py 48-59: every file of the
\* directory is parsed; without a conversation the function returns.
EnterProject ==
    /\ in_pc = "enter"
    /\ in_loop.p <= Len(Projects)
    /\ LET files == Projects[in_loop.p]
           all   == [i \in 1..Len(files) |-> i]
       IN  IF in_run.pipeline = "flexible"
           THEN IF Len(files) = 0
                THEN /\ in_loop' = [NoLoop EXCEPT !.p = in_loop.p + 1]
                     /\ UNCHANGED <<in_pc, in_touched>>
                ELSE /\ in_loop' = [NoLoop EXCEPT
                            !.p = in_loop.p,
                            !.c = 1,
                            !.parsed = SelectSeq(all, LAMBDA i : files[i].parses)]
                     /\ in_touched' = in_touched
                            \cup {<<in_loop.p, i>> : i \in 1..Len(files)}
                     /\ in_pc' = "conv"
           ELSE IF in_run.pipeline = "flat"
           THEN /\ in_loop' = [NoLoop EXCEPT
                       !.p = in_loop.p,
                       !.c = 1,
                       !.parsed = SelectSeq(all, LAMBDA i : files[i].parses)]
                /\ in_touched' = in_touched
                       \cup {<<in_loop.p, i>> : i \in 1..Len(files)}
                /\ in_pc' = IF in_loop'.parsed = <<>> THEN "returned" ELSE "check"
           ELSE /\ in_loop' = [NoLoop EXCEPT !.p = in_loop.p, !.c = 1,
                                             !.parsed = all]
                /\ in_pc' = "conv"
                /\ UNCHANGED in_touched
    /\ UNCHANGED <<in_run, in_totals, in_calls, in_report>>
    /\ UNCHANGED <<parserVars, flattenVars, embedVars, storeVars, searchVars>>

\* ingest_flexible.py 137-149: the vectors of one parsed conversation; an
\* exception here is caught at lines 168-170, outside the loop over the
\* conversations, which ends the project.
\* ingest.py 234-252: parse one file and embed all of its messages; an
\* exception is caught at 261-263 and the loop goes to the next file.
\* ingest.py 70-72: embed all messages of the directory; nothing catches an
\* exception.
PrepareEmbeddings ==
    /\ in_pc = "conv"
    /\ in_loop.c <= Len(in_loop.parsed)
    /\ LET msgs == FileAt.messages
       IN  IF in_run.pipeline = "flexible"
           THEN /\ UNCHANGED in_touched
                /\ IF ContentRaises(msgs)
                   THEN /\ in_loop' = [NoLoop EXCEPT !.p = in_loop.p + 1]
                        /\ in_pc' = "enter"
                   ELSE /\ in_loop' = [in_loop EXCEPT
                               !.vectors = FullEmbeddings(msgs),
                               !.project_embedded = @ + CountSubstantial(msgs)]
                        /\ in_pc' = "store"
           ELSE IF in_run.pipeline = "flat"
           THEN /\ UNCHANGED in_touched
                /\ IF ContentRaises(CallMessages)
                   THEN /\ in_pc' = "failed"
                        /\ UNCHANGED in_loop
                   ELSE /\ in_loop' = [in_loop EXCEPT
                               !.vectors = AllEmbeddings(CallMessages)]
                        /\ in_pc' = "store"
           ELSE /\ in_touched' = in_touched \cup {FileId}
                /\ IF ~FileAt.parses \/ Len(msgs) = 0 \/ ContentRaises(msgs)
                   THEN /\ in_loop' = [in_loop EXCEPT !.c = @ + 1]
                        /\ UNCHANGED in_pc
                   ELSE /\ in_loop' = [in_loop EXCEPT !.vectors = AllEmbeddings(msgs)]
                        /\ in_pc' = "store"
    /\ UNCHANGED <<in_run, in_totals, in_calls, in_report>>
    /\ UNCHANGED <<parserVars, flattenVars, embedVars, storeVars, searchVars>>

\* ingest_flexible.py 151-160: store_conversation inside its own try; the
\* messages count only when it returns.  ingest.py 254-259: the same under
\* the try of the file.  ingest.py 126-133: the one call of the flat
\* pipeline; an exception ends the run.
StoreStep ==
    /\ in_pc = "store"
    /\ LET msgs == CallMessages
           emb  == [given |-> TRUE, list |-> in_loop.vectors]
           key  == FileKeys[CallFile[1]][CallFile[2]]
       IN  /\ \/ StoreRejected(key, <<>>, msgs, emb)
              \/ StoreRolledBack(key, <<>>, msgs, emb)
              \/ StoreCommitted(key, <<>>, msgs, emb)
           /\ st_calls' = st_calls + 1
           /\ in_calls' = Append(in_calls,
                  [file |-> CallFile, messages |-> msgs, origins |-> CallOrigins,
                   embeddings |-> in_loop.vectors, result |-> st_last'.result])
           /\ LET ok == st_last'.result = "ok"
                  n  == IF ok THEN Len(msgs) ELSE 0
              IN  IF in_run.pipeline = "flexible"
                  THEN /\ in_loop' = [in_loop EXCEPT !.c = @ + 1, !.vectors = <<>>,
                                                     !.project_messages = @ + n]
                       /\ in_pc' = "conv"
                       /\ UNCHANGED in_totals
                  ELSE IF in_run.pipeline = "improved"
                  THEN /\ in_loop' = [in_loop EXCEPT !.c = @ + 1, !.vectors = <<>>]
                       /\ in_pc' = "conv"
                       /\ in_totals' = IF ok
                                       THEN [in_totals EXCEPT
                                               !.conversations = @ + 1,
                                               !.messages = @ + n]
                                       ELSE in_totals
                  ELSE /\ in_loop' = [NoLoop EXCEPT !.p = in_loop.p + 1]
                       /\ in_pc' = IF ok THEN "enter" ELSE "failed"
                       /\ in_totals' = IF ok
                                       THEN [in_totals EXCEPT !.conversations = @ + 1]
                                       ELSE in_totals
    /\ UNCHANGED <<in_run, in_touched, in_report, db_index>>
    /\ UNCHANGED <<parserVars, flattenVars, embedVars, searchVars>>

\* ingest_flexible.py 162-166: the project's counts join the totals; the
\* loop of ingest.py 233 ends
LeaveProject ==
    /\ in_pc = "conv"
    /\ in_loop.c > Len(in_loop.parsed)
    /\ in_totals' = IF in_run.pipeline = "flexible"
                    THEN [conversations |-> in_totals.conversations
                                               + Len(in_loop.parsed),
                          messages  |-> in_totals.messages + in_loop.project_messages,
                          embedded  |-> in_totals.embedded + in_loop.project_embedded]
                    ELSE in_totals
    /\ in_loop' = [NoLoop EXCEPT !.p = in_loop.p + 1]
    /\ in_pc' = "enter"
    /\ UNCHANGED <<in_run, in_calls, in_touched, in_report>>
    /\ UNCHANGED <<parserVars, flattenVars, embedVars, storeVars, searchVars>>

\* the rows of conversations LEFT JOIN messages LEFT JOIN technical_events
\* (both joined on the conversation) in which conversation c has a message,
\* or a message with a vector: a message comes once for every event of its
\* conversation
JoinedRows(c, embedded_only) ==
    LET msgs   == {m \in db_messages :
                      /\ m.conversation_id = c.id
                      /\ embedded_only => m.embedding.some}
        events == Cardinality({e \in db_events : e.conversation_id = c.id})
    IN  Cardinality(msgs) * (IF events = 0 THEN 1 ELSE events)

RECURSIVE CountJoined(_, _)
CountJoined(convs, embedded_only) ==
    IF convs = {} THEN 0
    ELSE LET c == CHOOSE x \in convs : TRUE
         IN  JoinedRows(c, embedded_only) + CountJoined(convs \ {c}, embedded_only)

\* ConversationDatabase.get_conversation_stats
GetConversationStats ==
    [conversation_count |-> Cardinality(db_conversations),
     message_count |-> CountJoined(db_conversations, FALSE),
     embedded_message_count |-> CountJoined(db_conversations, TRUE)]

\* ConversationDatabase.create_vector_index, called at ingest.py 268 and 139
\* after the loop over the files; ingest_flexible.py does not call it
CreateVectorIndex ==
    /\ in_run.pipeline # "flexible"
    /\ in_pc = "enter"
    /\ in_loop.p > Len(Projects)
    /\ db_index' = IF db_index.exists THEN db_index
                   ELSE [exists |-> TRUE, builds |-> db_index.builds + 1]
    /\ in_pc' = "report"
    /\ UNCHANGED <<db_conversations, db_messages, db_events, db_next_id,
                   st_acquired, st_calls, st_last>>
    /\ UNCHANGED <<in_run, in_loop, in_totals, in_calls, in_touched, in_report>>
    /\ UNCHANGED <<parserVars, flattenVars, embedVars, searchVars>>

\* ingest_flexible.py 172-186: the totals and the database statistics are
\* printed, the run returns True.  ingest.py 271-272 and 142-144: the
\* database statistics are printed.
FinalReport ==
    /\ \/ in_run.pipeline = "flexible" /\ in_pc = "enter" /\ in_loop.p > Len(Projects)
       \/ in_pc = "report"
    /\ in_report' = [printed |-> TRUE,
                     totals_printed |-> in_run.pipeline = "flexible",
                     totals |-> IF in_run.pipeline = "flexible"
                                THEN in_totals ELSE NoTotals,
                     stats |-> GetConversationStats]
    /\ in_pc' = "done"
    /\ UNCHANGED <<in_run, in_loop, in_totals, in_calls, in_touched>>
    /\ UNCHANGED <<parserVars, flattenVars, embedVars, storeVars, searchVars>>

IngestRuns ==
    { [pipeline |-> pl, available |-> av, units |-> us, split |-> sp] :
        pl \in {"flexible", "improved", "flat"}, av \in BOOLEAN,
        us \in UNION {[1..n -> IngestUnits] : n \in 0..MaxUnits},
        sp \in 0..MaxUnits }

InitIngest ==
    /\ ParserIdle
    /\ FlattenIdle
    /\ EmbedIdle
    /\ db_conversations = {}
    /\ db_messages = {}
    /\ db_events = {}
    /\ db_next_id = 1
    /\ db_index \in {NoIndex, [exists |-> TRUE, builds |-> 0]}
    /\ st_acquired = 0
    /\ st_calls = 0
    /\ st_last = NoCall
    /\ SearchIdle
    /\ in_run \in {r \in IngestRuns :
                     /\ r.split <= Len(r.units)
                     /\ r.pipeline # "flexible" => r.split = Len(r.units)}
    /\ in_pc = "init"
    /\ in_loop = NoLoop
    /\ in_totals = NoTotals
    /\ in_calls = <<>>
    /\ in_touched = {}
    /\ in_report = NoReport

NextIngest ==
    \/ IngestInitialize
    \/ CheckModel
    \/ EnterProject
    \/ PrepareEmbeddings
    \/ StoreStep
    \/ LeaveProject
    \/ CreateVectorIndex
    \/ FinalReport

SpecIngest == InitIngest /\ [][NextIngest]_vars

\* the scripts run their steps one after another without waiting on anything
\* but their own awaits: a step that can be taken is taken
SpecIngestFair == SpecIngest /\ WF_vars(NextIngest)

(***************************************************************************)
(* Properties of the ingestion scripts (specification SpecIngest).         *)
(***************************************************************************)
\* the embedding request of a message that was sent for embedding failed
EmbeddingFailed(m) == Substantial(m) /\ (m.fails \/ ~in_run.available)

\* the row a committed call left for message i of call k
RowOfCall(k, i) ==
    MessageOf(ConversationOf(FileKeys[in_calls[k].file[1]][in_calls[k].file[2]]).id,
              in_calls[k].messages[i].uuid)

\* C16: the vector list handed to store_conversation has one entry per
\* message, aligned by position; the entry is None for every message whose
\* stripped content does not exceed the minimum length and for every message
\* whose embedding call failed, so that such a message is stored without a
\* vector and no search returns it; every other entry is the vector computed
\* from that message's own content.
C16_VectorListAligned ==
    \A k \in 1..Len(in_calls) :
        LET call == in_calls[k]
        IN  /\ Len(call.embeddings) = Len(call.messages)
            /\ \A i \in 1..Len(call.messages) :
                  LET m == call.messages[i]
                  IN  IF ~Substantial(m) \/ EmbeddingFailed(m)
                      THEN /\ call.embeddings[i] = NoVector
                           /\ call.result = "ok" =>
                                /\ RowOfCall(k, i).embedding = NoVector
                                /\ \A q \in SearchQueries : ~Matches(RowOfCall(k, i), q)
                      ELSE call.embeddings[i] = SomeVector(Embedding(<<m.text>>))

\* a file that fails by itself: its parse raises, the embedding of one of
\* its messages raises, or its store raises
FailsAlone(u) ==
    ~u.parses \/ ContentRaises(u.messages) \/ DuplicateUuids(u.messages)

\* every file of the run that does not fail by itself was stored
OthersProcessed ==
    \A p \in 1..Len(Projects) : \A i \in 1..Len(Projects[p]) :
        ~FailsAlone(Projects[p][i]) =>
            \E k \in 1..Len(in_calls) :
                in_calls[k].file = <<p, i>> /\ in_calls[k].result = "ok"

\* C17: a run (one that passed the model check, where the script has one)
\* always reaches its final report, and a failure while parsing, embedding
\* or storing one file or conversation only skips that unit: when the report
\* is printed every other file and conversation of the run was processed.
C17_RunCompletes ==
    /\ (in_pc = "init" /\ (in_run.pipeline = "improved" => in_run.available))
          ~> in_report.printed
    /\ [](in_report.printed => OthersProcessed)

\* C18: when the embedding model is unavailable the run fails as a whole
\* before any file is parsed, embedded or stored: no file is parsed, no
\* store_conversation call is made, no conversation is stored and the run
\* does not end with its report.
C18_UnavailableFailsFirst ==
    ~in_run.available =>
        /\ in_touched = {}
        /\ in_calls = <<>>
        /\ db_conversations = {}
        /\ in_pc # "done"

\* C23: in every pipeline each message is handed to store_conversation
\* with the conversation parsed from the message's own file, and a stored
\* messages row belongs to the conversations row of that file.
C23_MessagesUnderOwnConversation ==
    \A k \in 1..Len(in_calls) :
        \A i \in 1..Len(in_calls[k].messages) :
            /\ in_calls[k].origins[i] = in_calls[k].file
            /\ in_calls[k].result = "ok" =>
                  ConversationRow(RowOfCall(k, i)).key
                     = FileKeys[in_calls[k].origins[i][1]][in_calls[k].origins[i][2]]

\* the conversations the run parsed, the store_conversation calls that
\* succeeded, and the messages of those calls
Attempted == Cardinality({f \in in_touched : Projects[f[1]][f[2]].parses})
StoredCalls == {k \in 1..Len(in_calls) : in_calls[k].result = "ok"}
RECURSIVE MessagesOfCalls(_)
MessagesOfCalls(ks) ==
    IF ks = {} THEN 0
    ELSE LET k == CHOOSE x \in ks : TRUE
         IN  Len(in_calls[k].messages) + MessagesOfCalls(ks \ {k})

\* the conversation counts the report prints, in order
PrintedConversationCounts ==
    IF in_report.totals_printed
    THEN <<in_report.totals.conversations, in_report.stats.conversation_count>>
    ELSE <<in_report.stats.conversation_count>>

\* C24: the final report gives the number of conversations attempted and,
\* as another figure, the number stored, which differ by the number of
\* conversations that failed; its message total is the number of messages
\* of the conversations whose store succeeded.
C24_ReportAttemptedAndStored ==
    in_report.printed =>
        /\ \E a \in DOMAIN PrintedConversationCounts,
              b \in DOMAIN PrintedConversationCounts :
              /\ a # b
              /\ PrintedConversationCounts[a] = Attempted
              /\ PrintedConversationCounts[b] = Cardinality(StoredCalls)
        /\ (IF in_report.totals_printed THEN in_report.totals.messages
            ELSE in_report.stats.message_count) = MessagesOfCalls(StoredCalls)

\* C25: a run that completes has built the vector index at most once, only
\* after its last store_conversation call, and the index exists when the
\* run ends; a create_vector_index call that finds the index changes nothing.
C25_IndexBuiltOnceAfterStores ==
    /\ [](in_pc = "done" => db_index.exists)
    /\ [](db_index.builds <= 1)
    /\ [](db_index.builds > 0 => in_pc \in {"report", "done"})
    /\ [][db_index.exists => db_index' = db_index]_vars

(***************************************************************************)
(* SpecFlatten: _extract_content applied to one content value, then to its *)
(* own output.                                                             *)
(***************************************************************************)
InitFlatten ==
    /\ ParserIdle
    /\ EmbedIdle
    /\ StoreIdle
    /\ SearchIdle
    /\ IngestIdle
    /\ fl_content \in Contents
    /\ fl_out = <<>>
    /\ fl_again = <<>>
    /\ fl_pc = "start"

Flatten ==
    /\ fl_pc = "start"
    /\ fl_out' = ExtractContent(fl_content)
    /\ fl_pc' = "flat"
    /\ UNCHANGED <<fl_content, fl_again, parserVars, embedVars, storeVars, searchVars, ingestVars>>

FlattenAgain ==
    /\ fl_pc = "flat"
    /\ fl_again' = ExtractContent(StrC(fl_out))
    /\ fl_pc' = "done"
    /\ UNCHANGED <<fl_content, fl_out, parserVars, embedVars, storeVars, searchVars, ingestVars>>

NextFlatten == Flatten \/ FlattenAgain

SpecFlatten == InitFlatten /\ [][NextFlatten]_vars

(***************************************************************************)
(* Properties of _extract_content (specification SpecFlatten).             *)
(***************************************************************************)
RECURSIVE TextLeaves(_)
\* the texts of the blocks of type text in a content value, at any depth
\* reached through list elements and content fields
TextLeaves(c) ==
    IF c.k = "list"
    THEN UNION {TextLeaves(c.items[i]) : i \in 1..Len(c.items)}
    ELSE IF c.k = "dict"
    THEN (IF c.type = "text" /\ c.hasText THEN {c.text} ELSE {})
            \cup (IF c.hasContent THEN TextLeaves(c.content) ELSE {})
    ELSE {}

\* C6: flattening a string returns the string, flattening the flattened
\* output again returns it unchanged, and the text of every block of type
\* text in the content value occurs in the flattened output.
C6_FlattenLossless ==
    /\ fl_pc # "start" =>
          /\ fl_content.k = "str" => fl_out = fl_content.s
          /\ \A t \in TextLeaves(fl_content) : Contains(fl_out, t)
    /\ fl_pc = "done" => fl_again = fl_out

\* a value none of the rules for strings, text blocks and content fields
\* applies to
Unrecognised(c) ==
    \/ c.k = "num"
    \/ c.k = "dict" /\ ~(c.type = "text" /\ c.hasText) /\ ~c.hasContent

\* C20: flattening a list is the newline-join of flattening each of its
\* elements in order, and a value of no recognised shape is stringified,
\* as the whole content and as an element of a list alike.
C20_ListIsJoinOfElements ==
    fl_pc # "start" =>
        /\ Unrecognised(fl_content) => fl_out = StrOf(fl_content)
        /\ fl_content.k = "list" =>
              fl_out = Join([i \in 1..Len(fl_content.items) |->
                                ExtractContent(fl_content.items[i])])

=============================================================================
